---- MODULE Spec2Model ----
(***************************************************************************)
(* Multi-technique key-value extraction and ensemble confidence scoring.   *)
(*                                                                         *)
(* Two classes are modelled:                                               *)
(*   MultiTechniqueExtractor   multi_technique_extractor_simple.py and     *)
(*                             multi_technique_extractor.py (two variants  *)
(*                             of the same class, told apart by `variant`) *)
(*   EnhancedConfidenceScorer  confidence_scorer.py                        *)
(*                                                                         *)
(* Python values are represented as follows.                               *)
(*   dict      an insertion-ordered dict whose order is read by the code   *)
(*             is a record [keys |-> sequence, val |-> function]; a dict   *)
(*             whose order is never read is a TLA+ function                *)
(*   float     a technique confidence n/d is the record [num, den]; a      *)
(*             number of the scorer is the exact fraction                  *)
(*             [type, num, den] in lowest terms, type telling a float from *)
(*             a value the arithmetic accepts but cannot order (complex)   *)
(*   raise     the marker ERR as the outcome of the step that raised       *)
(*   text      the document is represented by what it yields: doc[t][f] is *)
(*             the string technique t finds in it for library field f      *)
(***************************************************************************)
EXTENDS Integers, Sequences, FiniteSets, TLC

VARIABLES
    variant,                     \* which MultiTechniqueExtractor class was constructed
    techniques,                  \* self.techniques: registered names, registration order
    pc,                          \* position inside extract_with_multiple_techniques
    doc,                         \* argument text
    requested_fields,            \* argument requested_fields
    selected_techniques,         \* argument selected_techniques (after the None default)
    was_default,                 \* selected_techniques was None in the call
    idx,                         \* loop position in selected_techniques
    technique_results,           \* results["technique_results"]
    technique_confidence_scores, \* results["technique_confidence_scores"]
    consolidated_results,        \* results["consolidated_results"]
    best_technique_per_field,    \* results["best_technique_per_field"]
    overall_technique_ranking,   \* results["overall_technique_ranking"]
    error_log                    \* logger.error records of the call: technique names

extractor_vars ==
    <<variant, techniques, pc, doc, requested_fields, selected_techniques, was_default,
      idx, technique_results, technique_confidence_scores, consolidated_results,
      best_technique_per_field, overall_technique_ranking, error_log>>

VARIABLES
    score_pc,                    \* position inside calculate_ensemble_confidence
    extracted_data,              \* argument extracted_data
    template_classification,     \* argument template_classification
    completion_confidence,       \* local of calculate_ensemble_confidence
    validation_confidence,       \* local of calculate_ensemble_confidence
    template_confidence,         \* local of calculate_ensemble_confidence
    quality_confidence,          \* local of calculate_ensemble_confidence
    consistency_confidence,      \* local of calculate_ensemble_confidence
    overall_confidence,          \* local of calculate_ensemble_confidence (not rounded)
    result,                      \* the report the call returns
    raised_at                    \* logger.error records of the call: the step that raised

scorer_vars ==
    <<score_pc, extracted_data, template_classification, completion_confidence,
      validation_confidence, template_confidence, quality_confidence,
      consistency_confidence, overall_confidence, result, raised_at>>

VARIABLES
    custom_pc,                   \* position inside extract_custom_fields
    custom_text,                 \* argument text
    field_list,                  \* argument field_list
    field_idx,                   \* position of the second loop in field_list
    custom_results               \* local results, returned at the end

custom_vars == <<custom_pc, custom_text, field_list, field_idx, custom_results>>

VARIABLES
    form_pc,                     \* position of a direct call of _regex_pattern_matching
    form_lines,                  \* argument text, as its "Label: value" lines
    form_fields,                 \* argument fields
    form_result                  \* the dict the technique returns

form_vars == <<form_pc, form_lines, form_fields, form_result>>

VARIABLES
    invocation,                  \* per thread: the frame of the call it is running
    instance                     \* attribute tables of the shared extractor and scorer

conc_vars == <<invocation, instance>>

VARIABLES
    helper_pc,                   \* position of a direct call of one technique's helper
    helper_args,                 \* its arguments
    helper_result                \* what it returns

helper_vars == <<helper_pc, helper_args, helper_result>>

\* what a call of one component leaves alone
outside_extractor == <<scorer_vars, custom_vars, form_vars, conc_vars, helper_vars>>

outside_scorer == <<extractor_vars, custom_vars, form_vars, conc_vars, helper_vars>>

outside_custom == <<extractor_vars, scorer_vars, form_vars, conc_vars, helper_vars>>

outside_form == <<extractor_vars, scorer_vars, custom_vars, conc_vars, helper_vars>>

\* the frames of concurrent calls leave the single-call variables alone, except
\* for self.techniques, which they read
outside_conc ==
    <<variant, pc, doc, requested_fields, selected_techniques, was_default, idx,
      technique_results, technique_confidence_scores, consolidated_results,
      best_technique_per_field, overall_technique_ranking, error_log,
      scorer_vars, custom_vars, form_vars, helper_vars>>

outside_helper == <<extractor_vars, scorer_vars, custom_vars, form_vars, conc_vars>>

-----------------------------------------------------------------------------
(* Bounds of the model                                                     *)

\* longest selected_techniques list passed by a caller
MaxSelected == 3

\* longest requested_fields list passed by a caller
MaxFields == 2

-----------------------------------------------------------------------------
(* Generic helpers: Python dict, list and float operations                 *)

Range(s) == {s[i] : i \in DOMAIN s}

SeqsUpTo(S, n) == UNION {[1..k -> S] : k \in 0..n}

\* d[k] = v on a dict whose order is not read
DictSet(d, k, v) == [x \in (DOMAIN d) \cup {k} |-> IF x = k THEN v ELSE d[x]]

EmptyDict == [x \in {} |-> ""]

\* insertion-ordered dict
OD_Empty == [keys |-> <<>>, val |-> EmptyDict]

OD_Set(d, k, v) ==
    [keys |-> IF k \in Range(d.keys) THEN d.keys ELSE Append(d.keys, k),
     val  |-> DictSet(d.val, k, v)]

\* float n/d, and the comparisons the code makes on floats
Frac(n, d) == [num |-> n, den |-> d]

FracGT(a, b) == a.num * b.den > b.num * a.den

FracEQ(a, b) == a.num * b.den = b.num * a.den

Zero == Frac(0, 1)

-----------------------------------------------------------------------------
(* The two classes and their pattern library                               *)

ERR == "<raised>"

techniques_simple ==
    << "regex_pattern_matching", "fuzzy_string_matching", "keyword_proximity_analysis",
       "statistical_frequency_analysis", "context_aware_extraction",
       "template_based_extraction", "position_based_extraction",
       "pattern_ensemble_method", "confidence_weighted_extraction",
       "semantic_similarity_matching" >>

techniques_full ==
    << "regex_pattern_matching", "fuzzy_string_matching", "keyword_proximity_analysis",
       "levenshtein_distance_matching", "statistical_frequency_analysis",
       "context_aware_extraction", "template_based_extraction",
       "position_based_extraction", "pattern_ensemble_method",
       "confidence_weighted_extraction" >>

\* keys of self.regex_patterns, self.fuzzy_keywords and context_words (the same nine)
LibraryFields ==
    {"name", "email", "phone", "ssn", "address", "date", "amount", "employee_id",
     "policy_number"}

\* field names a caller requests in the model: two of the library, one outside it,
\* and one that differs from a library name by letter case
FieldUniverse == {"name", "ssn", "title", "Name"}

\* field.lower().replace(' ', '_') on the names of the model
normalize(field) == IF field = "Name" THEN "name" ELSE field

\* technique names a caller selects in the model; the last one is not registered
SelectableNames ==
    {"regex_pattern_matching", "fuzzy_string_matching", "position_based_extraction",
     "no_such_technique"}

\* strings a document yields for "name": nothing, a whitespace-only capture of
\* ([A-Za-z\s]{2,50}), or one of two names
WhitespaceOnly == "  "

NameValues == {"", WhitespaceOnly, "John Smith", "Jane Doe"}

\* str.strip() on the strings of the model
strip(v) == IF v = WhitespaceOnly THEN "" ELSE IF v = " name " THEN "name" ELSE v

\* techniques of the full class that call a name the module never imports
\* (process, fuzz, levenshtein_distance) while handling a library field
UndefinedNameTechniques ==
    {"fuzzy_string_matching", "keyword_proximity_analysis",
     "levenshtein_distance_matching", "template_based_extraction",
     "pattern_ensemble_method", "confidence_weighted_extraction"}

\* techniques that return the first regex capture as it is (not stripped)
RegexCaptureTechniques == {"regex_pattern_matching", "position_based_extraction"}

\* strings a document yields for "ssn": nothing or a (\d{3}-\d{2}-\d{4}) capture
SsnValues == {"", "123-45-6789"}

\* what a document can yield to technique t for library field f.  The documents
\* of the model are non-empty form-like texts ("label: value" lines): on them
\* every technique of UndefinedNameTechniques reaches its undefined name, and only
\* the techniques of SelectableNames find a value.
DocOutcomes(v, t, f) ==
    IF v = "full" /\ t \in UndefinedNameTechniques THEN {ERR}
    ELSE IF t \notin SelectableNames THEN {""}
    ELSE IF f = "ssn" THEN SsnValues
    ELSE IF t \in RegexCaptureTechniques THEN NameValues
    ELSE NameValues \ {WhitespaceOnly}

\* a for-field body that indexes the library without the guard (KeyError)
FieldOutcome_unguarded(t, field) ==
    IF field \in LibraryFields THEN doc[t][field] ELSE ERR

\* the for-field body of a technique: guard on the library, then the search
FieldOutcome(t, field) ==
    IF field \in LibraryFields THEN doc[t][field] ELSE ""

\* the loop `for field in fields` shared by all techniques: extracted[field] is
\* set for each field in turn, successful_extractions counts the non-empty values,
\* and an exception at one field leaves the function at once
RECURSIVE technique_loop(_, _, _, _, _)
technique_loop(t, fields, i, extracted, successful) ==
    IF i > Len(fields)
    THEN [raised |-> FALSE,
          extracted_fields |-> extracted,
          confidence_score |-> IF Len(fields) > 0 THEN Frac(successful, Len(fields))
                                                  ELSE Zero]
    ELSE LET o == FieldOutcome(t, fields[i])
         IN  IF o = ERR
             THEN [raised |-> TRUE, extracted_fields |-> extracted,
                   confidence_score |-> Zero]
             ELSE technique_loop(t, fields, i + 1, DictSet(extracted, fields[i], o),
                                 successful + (IF o # "" THEN 1 ELSE 0))

\* a technique whose confidence counts the keys of extracted_fields
technique_func_by_keys(t, fields) ==
    LET r == technique_loop(t, fields, 1, EmptyDict, 0)
        found == {f \in DOMAIN r.extracted_fields : r.extracted_fields[f] # ""}
    IN  IF r.raised \/ fields = <<>> THEN r
        ELSE [r EXCEPT !.confidence_score = Frac(Cardinality(found), Len(fields))]

\* technique_func(text, requested_fields)
technique_func(t, fields) == technique_loop(t, fields, 1, EmptyDict, 0)

-----------------------------------------------------------------------------
(* Result consolidation                                                    *)

\* candidates: results[field] of every technique, in technique_results order, with
\* `field in results and results[field].strip()`
RECURSIVE collect_candidates(_, _, _)
collect_candidates(tr, field, i) ==
    IF i > Len(tr.keys) THEN <<>>
    ELSE LET results == tr.val[tr.keys[i]]
             rest    == collect_candidates(tr, field, i + 1)
         IN  IF field \in DOMAIN results /\ strip(results[field]) # ""
             THEN <<results[field]>> \o rest
             ELSE rest

\* number of occurrences of v in the list
Count(v, list) == Cardinality({i \in DOMAIN list : list[i] = v})

\* keys of Counter(list): the distinct elements in order of first occurrence
RECURSIVE counter_keys(_, _)
counter_keys(list, i) ==
    IF i > Len(list) THEN <<>>
    ELSE IF \E j \in 1..(i - 1) : list[j] = list[i]
         THEN counter_keys(list, i + 1)
         ELSE <<list[i]>> \o counter_keys(list, i + 1)

\* variants of max_replaces with a wrong comparison (least frequent; last of a tie)
max_replaces_less(new, best) == new < best

max_replaces_or_equal(new, best) == new >= best

\* max(keys, key=...) over ints: the comparison that replaces the running maximum
max_replaces(new, best) == new > best

\* max(keys, key=lambda k: counts[k]): the first key with the largest count
RECURSIVE max_by_count(_, _, _, _)
max_by_count(keys, list, i, best) ==
    IF i > Len(keys) THEN best
    ELSE max_by_count(keys, list, i + 1,
                      IF max_replaces(Count(keys[i], list), Count(best, list))
                      THEN keys[i] ELSE best)

\* the consolidated value of one field
consolidate_field(tr, field) ==
    LET candidates == collect_candidates(tr, field, 1)
    IN  IF candidates # <<>>
        THEN LET keys == counter_keys(candidates, 1)
             IN  max_by_count(keys, candidates, 2, keys[1])
        ELSE ""

\* variant of consolidate_loop that leaves out a field without candidates
RECURSIVE consolidate_loop_skip_empty(_, _, _, _)
consolidate_loop_skip_empty(tr, fields, i, consolidated) ==
    IF i > Len(fields) THEN consolidated
    ELSE consolidate_loop_skip_empty(tr, fields, i + 1,
            IF collect_candidates(tr, fields[i], 1) # <<>>
            THEN DictSet(consolidated, fields[i], consolidate_field(tr, fields[i]))
            ELSE consolidated)

RECURSIVE consolidate_loop(_, _, _, _)
consolidate_loop(tr, fields, i, consolidated) ==
    IF i > Len(fields) THEN consolidated
    ELSE consolidate_loop(tr, fields, i + 1,
                          DictSet(consolidated, fields[i], consolidate_field(tr, fields[i])))

_consolidate_results(tr, fields) == consolidate_loop(tr, fields, 1, EmptyDict)

\* the scan of one field in _find_best_technique_per_field; best is None ("") at first
RECURSIVE best_scan(_, _, _, _, _, _)
best_scan(tr, scores, field, i, best_technique, best_score) ==
    IF i > Len(tr.keys) THEN best_technique
    ELSE LET name    == tr.keys[i]
             results == tr.val[name]
             score   == IF name \in DOMAIN scores.val THEN scores.val[name] ELSE Zero
         IN  IF field \in DOMAIN results /\ strip(results[field]) # ""
                /\ FracGT(score, best_score)
             THEN best_scan(tr, scores, field, i + 1, name, score)
             ELSE best_scan(tr, scores, field, i + 1, best_technique, best_score)

\* the first technique with a non-blank value, whatever its score
first_nonblank_technique(tr, scores, field) ==
    LET found == {i \in DOMAIN tr.keys :
                     /\ field \in DOMAIN tr.val[tr.keys[i]]
                     /\ strip(tr.val[tr.keys[i]][field]) # ""}
    IN  IF found = {} THEN "none"
        ELSE tr.keys[CHOOSE i \in found : \A j \in found : i <= j]

best_for_field(tr, scores, field) ==
    LET best == best_scan(tr, scores, field, 1, "", Frac(-1, 1))
    IN  IF best # "" THEN best ELSE "none"

RECURSIVE best_loop(_, _, _, _, _)
best_loop(tr, scores, fields, i, best_techniques) ==
    IF i > Len(fields) THEN best_techniques
    ELSE best_loop(tr, scores, fields, i + 1,
                   DictSet(best_techniques, fields[i], best_for_field(tr, scores, fields[i])))

_find_best_technique_per_field(tr, scores, fields) ==
    best_loop(tr, scores, fields, 1, EmptyDict)

\* sorted(items, key=score, reverse=True): stable, so equal scores keep dict order.
\* insert_sorted puts name after every entry whose score is >= its own.
\* an insertion that puts name before the entries of equal score
RECURSIVE insert_before_equal(_, _, _)
insert_before_equal(sorted, name, scores) ==
    IF sorted = <<>> THEN <<name>>
    ELSE IF ~FracGT(scores.val[Head(sorted)], scores.val[name])
         THEN <<name>> \o sorted
         ELSE <<Head(sorted)>> \o insert_before_equal(Tail(sorted), name, scores)

RECURSIVE insert_sorted(_, _, _)
insert_sorted(sorted, name, scores) ==
    IF sorted = <<>> THEN <<name>>
    ELSE IF FracGT(scores.val[name], scores.val[Head(sorted)])
         THEN <<name>> \o sorted
         ELSE <<Head(sorted)>> \o insert_sorted(Tail(sorted), name, scores)

RECURSIVE sort_desc(_, _, _)
sort_desc(scores, i, sorted) ==
    IF i > Len(scores.keys) THEN sorted
    ELSE sort_desc(scores, i + 1, insert_sorted(sorted, scores.keys[i], scores))

_rank_techniques_overall(scores) ==
    LET sorted_techniques == sort_desc(scores, 1, <<>>)
    IN  [name \in Range(sorted_techniques) |->
            CHOOSE i \in DOMAIN sorted_techniques : sorted_techniques[i] = name]

-----------------------------------------------------------------------------
(* extract_with_multiple_techniques, one action per step                   *)

\* registered names that the loop will run for the given selection
WillRun(registered, selected) == Range(registered) \cap Range(selected)

\* what a document can yield to technique t for the library fields of a request
RECURSIVE FieldOutcomes(_, _, _)
FieldOutcomes(v, t, fs) ==
    IF fs = {} THEN {EmptyDict}
    ELSE LET f == CHOOSE x \in fs : TRUE
         IN  {DictSet(g, f, o) :
                 g \in FieldOutcomes(v, t, fs \ {f}), o \in DocOutcomes(v, t, f)}

\* documents: one outcome for every technique that runs and every library field
\* that the request names in some spelling
RECURSIVE Documents(_, _, _)
Documents(v, run, fields) ==
    IF run = {} THEN {EmptyDict}
    ELSE LET t == CHOOSE x \in run : TRUE
         IN  {DictSet(d, t, g) :
                 d \in Documents(v, run \ {t}, fields),
                 g \in FieldOutcomes(v, t,
                                     LibraryFields \cap {normalize(f) : f \in Range(fields)})}

ResetCall ==
    /\ doc = EmptyDict
    /\ requested_fields = <<>>
    /\ selected_techniques = <<>>
    /\ was_default = FALSE
    /\ idx = 1
    /\ technique_results = OD_Empty
    /\ technique_confidence_scores = OD_Empty
    /\ consolidated_results = EmptyDict
    /\ best_technique_per_field = EmptyDict
    /\ overall_technique_ranking = EmptyDict
    /\ error_log = <<>>

\* __init__: self.techniques of the class that was constructed
ExtractorInit ==
    /\ variant \in {"simple", "full"}
    /\ techniques = IF variant = "simple" THEN techniques_simple ELSE techniques_full
    /\ pc = "idle"
    /\ ResetCall

\* entry of extract_with_multiple_techniques: the arguments, the None default and
\* the empty results dict
Call ==
    /\ pc = "idle"
    /\ \E fields \in SeqsUpTo(FieldUniverse, MaxFields),
          default \in BOOLEAN :
         \E selected \in IF default THEN {techniques}
                                    ELSE SeqsUpTo(SelectableNames, MaxSelected) :
           \E d \in Documents(variant, WillRun(techniques, selected), fields) :
              /\ doc' = d
              /\ requested_fields' = fields
              /\ selected_techniques' = selected
              /\ was_default' = default
    /\ idx' = 1
    /\ technique_results' = OD_Empty
    /\ technique_confidence_scores' = OD_Empty
    /\ consolidated_results' = EmptyDict
    /\ best_technique_per_field' = EmptyDict
    /\ overall_technique_ranking' = EmptyDict
    /\ error_log' = <<>>
    /\ pc' = "loop"
    /\ UNCHANGED <<variant, techniques>>
    /\ UNCHANGED outside_extractor

\* a loop that records an unregistered name like a technique that failed
RecordUnregistered ==
    /\ pc = "loop"
    /\ idx <= Len(selected_techniques)
    /\ selected_techniques[idx] \notin Range(techniques)
    /\ idx' = idx + 1
    /\ technique_results' = OD_Set(technique_results, selected_techniques[idx], EmptyDict)
    /\ technique_confidence_scores' =
          OD_Set(technique_confidence_scores, selected_techniques[idx], Zero)
    /\ UNCHANGED <<variant, techniques, pc, doc, requested_fields, selected_techniques,
                   was_default, consolidated_results, best_technique_per_field,
                   overall_technique_ranking, error_log>>
    /\ UNCHANGED outside_extractor

\* loop iteration, `if technique_name in self.techniques` is false: nothing happens
SkipUnregistered ==
    /\ pc = "loop"
    /\ idx <= Len(selected_techniques)
    /\ selected_techniques[idx] \notin Range(techniques)
    /\ idx' = idx + 1
    /\ UNCHANGED <<variant, techniques, pc, doc, requested_fields, selected_techniques,
                   was_default, technique_results, technique_confidence_scores,
                   consolidated_results, best_technique_per_field,
                   overall_technique_ranking, error_log>>
    /\ UNCHANGED outside_extractor

\* loop iteration, try block: the technique returned
RunTechnique ==
    /\ pc = "loop"
    /\ idx <= Len(selected_techniques)
    /\ selected_techniques[idx] \in Range(techniques)
    /\ LET technique_name   == selected_techniques[idx]
           technique_result == technique_func(technique_name, requested_fields)
       IN  /\ ~technique_result.raised
           /\ technique_results' =
                 OD_Set(technique_results, technique_name, technique_result.extracted_fields)
           /\ technique_confidence_scores' =
                 OD_Set(technique_confidence_scores, technique_name,
                        technique_result.confidence_score)
    /\ idx' = idx + 1
    /\ UNCHANGED <<variant, techniques, pc, doc, requested_fields, selected_techniques,
                   was_default, consolidated_results, best_technique_per_field,
                   overall_technique_ranking, error_log>>
    /\ UNCHANGED outside_extractor

\* what the except block records for the technique: an empty dict and 0.0
except_fields(partial) == EmptyDict

\* variant of after_except in which an exception ends the loop
after_except_break(i, n) == n + 1

\* the loop position after the except block: the loop goes on
after_except(i, n) == i + 1

\* loop iteration, except block: the technique raised
TechniqueRaised ==
    /\ pc = "loop"
    /\ idx <= Len(selected_techniques)
    /\ selected_techniques[idx] \in Range(techniques)
    /\ LET technique_name   == selected_techniques[idx]
           technique_result == technique_func(technique_name, requested_fields)
       IN  /\ technique_result.raised
           /\ error_log' = Append(error_log, technique_name)
           /\ technique_results' =
                 OD_Set(technique_results, technique_name,
                        except_fields(technique_result.extracted_fields))
           /\ technique_confidence_scores' =
                 OD_Set(technique_confidence_scores, technique_name, Zero)
    /\ idx' = after_except(idx, Len(selected_techniques))
    /\ UNCHANGED <<variant, techniques, pc, doc, requested_fields, selected_techniques,
                   was_default, consolidated_results, best_technique_per_field,
                   overall_technique_ranking>>
    /\ UNCHANGED outside_extractor

\* results["consolidated_results"] = self._consolidate_results(...)
Consolidate ==
    /\ pc = "loop"
    /\ idx > Len(selected_techniques)
    /\ consolidated_results' = _consolidate_results(technique_results, requested_fields)
    /\ pc' = "best"
    /\ UNCHANGED <<variant, techniques, doc, requested_fields, selected_techniques,
                   was_default, idx, technique_results, technique_confidence_scores,
                   best_technique_per_field, overall_technique_ranking, error_log>>
    /\ UNCHANGED outside_extractor

\* results["best_technique_per_field"] = self._find_best_technique_per_field(...)
FindBest ==
    /\ pc = "best"
    /\ best_technique_per_field' =
          _find_best_technique_per_field(technique_results, technique_confidence_scores,
                                         requested_fields)
    /\ pc' = "rank"
    /\ UNCHANGED <<variant, techniques, doc, requested_fields, selected_techniques,
                   was_default, idx, technique_results, technique_confidence_scores,
                   consolidated_results, overall_technique_ranking, error_log>>
    /\ UNCHANGED outside_extractor

\* results["overall_technique_ranking"] = self._rank_techniques_overall(...); return
Rank ==
    /\ pc = "rank"
    /\ overall_technique_ranking' = _rank_techniques_overall(technique_confidence_scores)
    /\ pc' = "done"
    /\ UNCHANGED <<variant, techniques, doc, requested_fields, selected_techniques,
                   was_default, idx, technique_results, technique_confidence_scores,
                   consolidated_results, best_technique_per_field, error_log>>
    /\ UNCHANGED outside_extractor

\* the caller drops the returned dict; the instance is ready for the next call
Return ==
    /\ pc = "done"
    /\ pc' = "idle"
    /\ doc' = EmptyDict
    /\ requested_fields' = <<>>
    /\ selected_techniques' = <<>>
    /\ was_default' = FALSE
    /\ idx' = 1
    /\ technique_results' = OD_Empty
    /\ technique_confidence_scores' = OD_Empty
    /\ consolidated_results' = EmptyDict
    /\ best_technique_per_field' = EmptyDict
    /\ overall_technique_ranking' = EmptyDict
    /\ error_log' = <<>>
    /\ UNCHANGED <<variant, techniques>>
    /\ UNCHANGED outside_extractor

ExtractorNext ==
    \/ Call
    \/ SkipUnregistered
    \/ RunTechnique
    \/ TechniqueRaised
    \/ Consolidate
    \/ FindBest
    \/ Rank
    \/ Return

-----------------------------------------------------------------------------
(* EnhancedConfidenceScorer: numbers                                       *)

RECURSIVE GCD(_, _)
GCD(a, b) == IF b = 0 THEN a ELSE GCD(b, a % b)

Abs(n) == IF n < 0 THEN -n ELSE n

\* the float n/d, in lowest terms
PyFloat(n, d) ==
    LET g == GCD(Abs(n), d)
    IN  [type |-> "float", num |-> n \div g, den |-> d \div g]

\* a complex number with a non-zero imaginary part: + and * accept it, < and
\* round() raise TypeError; its value is never read
PyComplex == [type |-> "complex", num |-> 0, den |-> 1]

\* a str where a number is expected: * with a float raises TypeError
PyStr == [type |-> "str", num |-> 0, den |-> 1]

\* a local that is not assigned yet
Unset == [type |-> "unset", num |-> 0, den |-> 1]

\* the outcome of a call: it raised, or it returned value
Raised == [raised |-> TRUE, value |-> Unset]

Returns(v) == [raised |-> FALSE, value |-> v]

\* a + b and a * b on float and complex operands
FAdd(a, b) ==
    IF a.type = "complex" \/ b.type = "complex" THEN PyComplex
    ELSE LET g == GCD(a.den, b.den)
         IN  PyFloat(a.num * (b.den \div g) + b.num * (a.den \div g),
                     a.den * (b.den \div g))

FMul(a, b) ==
    IF a.type = "complex" \/ b.type = "complex" THEN PyComplex
    ELSE LET g1 == GCD(Abs(a.num), b.den)
             g2 == GCD(Abs(b.num), a.den)
         IN  PyFloat((a.num \div g1) * (b.num \div g2),
                     (a.den \div g2) * (b.den \div g1))

\* a < b, a >= b and a > b on floats
FLT(a, b) == a.num * b.den < b.num * a.den

FGE(a, b) == ~FLT(a, b)

FGT(a, b) == FLT(b, a)

RECURSIVE FSum(_, _)
FSum(list, i) == IF i > Len(list) THEN PyFloat(0, 1) ELSE FAdd(list[i], FSum(list, i + 1))

\* statistics.mean of a non-empty list of floats
mean(list) == FMul(FSum(list, 1), PyFloat(1, Len(list)))

\* round(x, 3) of a float: the nearest multiple of 1/1000.  When the exact value
\* lies halfway between two multiples, the binary float lies a little above or a
\* little below it and the result is the multiple on that side: up tells which.
round3(x, up) ==
    LET whole == x.num \div x.den
        r     == x.num % x.den
        k0    == whole * 1000 + (r * 1000) \div x.den
        rem   == (r * 1000) % x.den
        k     == IF 2 * rem > x.den THEN k0 + 1
                 ELSE IF 2 * rem = x.den /\ up THEN k0 + 1
                 ELSE k0
    IN  PyFloat(k, 1000)

-----------------------------------------------------------------------------
(* EnhancedConfidenceScorer: the values of extracted_data                  *)

\* a dict: keys in insertion order and the value of each key
PyDict(keys, val) == [type |-> "dict", keys |-> keys, val |-> val]

\* a value that is not a dict: None, a non-empty str, an empty list
NonDict(type) == [type |-> type, keys |-> <<>>, val |-> EmptyDict]

\* bool(x) of an argument
truthy_arg(x) ==
    CASE x.type = "dict"     -> x.keys # <<>>
      [] x.type = "str"      -> TRUE
      [] x.type = "list"     -> FALSE
      [] x.type = "NoneType" -> FALSE

\* d.get(key, {})
get_or_empty(d, key) ==
    IF key \in Range(d.keys) THEN d.val[key] ELSE PyDict(<<>>, EmptyDict)

RECURSIVE merge_into(_, _, _)
merge_into(d, other, i) ==
    IF i > Len(other.keys) THEN d
    ELSE LET k  == other.keys[i]
             d1 == OD_Set(d, k, other.val[k])
         IN  merge_into(PyDict(d1.keys, d1.val), other, i + 1)

\* a merge that drops policy_info
merge_customer_only(customer_info, policy_info) == customer_info

\* {**customer_info, **policy_info}
merge(customer_info, policy_info) == merge_into(customer_info, policy_info, 1)

\* the block every sub-algorithm starts with: pick the field map out of the shape
\* that was passed. `in` raises TypeError on None, ** on a value that is not a
\* mapping, and .items() AttributeError on a value that is not a dict.
fields_of(data) ==
    IF data.type = "NoneType" THEN Raised
    ELSE IF data.type # "dict" THEN Raised
    ELSE IF "extracted_fields" \in Range(data.keys)
         THEN IF data.val["extracted_fields"].type = "dict"
              THEN Returns(data.val["extracted_fields"])
              ELSE Raised
    ELSE IF "customer_info" \in Range(data.keys) \/ "policy_info" \in Range(data.keys)
         THEN LET customer_info == get_or_empty(data, "customer_info")
                  policy_info   == get_or_empty(data, "policy_info")
              IN  IF customer_info.type = "dict" /\ policy_info.type = "dict"
                  THEN Returns(merge(customer_info, policy_info))
                  ELSE Raised
    ELSE Returns(data)

-----------------------------------------------------------------------------
(* EnhancedConfidenceScorer: what the string operations give on the field  *)
(* names and the field values of the model                                 *)

ScorerFields == <<"name", "ssn", "date">>

\* the field values of the model are "", WhitespaceOnly, "John Smith", "null", "aaaa",
\* "123-45-6789", "12345", "Jan 5", "01/15/1990", "test", "john@example.com",
\* "john@", "555-123-4567" and "555-1234"

\* self.field_weights.get(field_name, 0.03), in hundredths
field_weight(field_name) ==
    CASE field_name = "name" -> 15
      [] field_name = "ssn"  -> 20
      [] field_name = "date" -> 5
      [] field_name = "phone" -> 8
      [] field_name = "email" -> 8
      [] OTHER               -> 3

\* field_name in self.validation_patterns
has_validation_pattern(field_name) == field_name \in {"ssn", "phone", "email"}

\* bool(re.match(self.validation_patterns[field_name], value))
matches_validation_pattern(field_name, value) ==
    \/ field_name = "ssn" /\ value = "123-45-6789"
    \/ field_name = "phone" /\ value = "555-123-4567"
    \/ field_name = "email" /\ value = "john@example.com"

\* bool(field_value)
truthy(value) == value # ""

\* str.lower()
lower(value) ==
    CASE value = "John Smith" -> "john smith"
      [] value = "Jan 5"      -> "jan 5"
      [] value = "Name"       -> "name"
      [] value = "SSN"        -> "ssn"
      [] value = "Email"      -> "email"
      [] OTHER                -> value

\* term in field_name.lower()
term_in_name(term, field_name) == term = lower(field_name)

\* len(value)
len(value) ==
    CASE value = ""            -> 0
      [] value = WhitespaceOnly -> 2
      [] value = "John Smith"  -> 10
      [] value = "null"        -> 4
      [] value = "aaaa"        -> 4
      [] value = "test"        -> 4
      [] value = "john@example.com" -> 16
      [] value = "john@"       -> 5
      [] value = "555-123-4567" -> 12
      [] value = "555-1234"    -> 8
      [] value = "123-45-6789" -> 11
      [] value = "12345"       -> 5
      [] value = "Jan 5"       -> 5
      [] value = "01/15/1990"  -> 10

\* len(set(value.lower()))
distinct_chars(value) ==
    CASE value = ""            -> 0
      [] value = WhitespaceOnly -> 1
      [] value = "John Smith"  -> 9
      [] value = "null"        -> 3
      [] value = "aaaa"        -> 1
      [] value = "test"        -> 3
      [] value = "john@example.com" -> 13
      [] value = "john@"       -> 5
      [] value = "555-123-4567" -> 8
      [] value = "555-1234"    -> 6
      [] value = "123-45-6789" -> 10
      [] value = "12345"       -> 5
      [] value = "Jan 5"       -> 5
      [] value = "01/15/1990"  -> 5

\* value.isdigit()
isdigit(value) == value = "12345"

\* re.search(r'\d', value)
has_digit(value) ==
    value \in {"123-45-6789", "12345", "Jan 5", "01/15/1990", "555-123-4567", "555-1234"}

\* re.match(r'^[A-Za-z\s]{2,50}$', value)
is_letters_and_spaces(value) == value \in {"John Smith", "null", "aaaa", "test"}

\* re.match(r'^[A-Za-z\s.,]{2,}$', value)
is_letters_spaces_dots(value) == value \in {"John Smith", "null", "aaaa", "test"}

\* re.match(r'^[A-Za-z\s&.,]{2,}$', value)
is_organization_text(value) == value \in {"John Smith", "null", "aaaa", "test"}

\* any(pattern in value.lower() for pattern in ['n/a', 'null', 'none', 'unknown', '---', '***'])
has_suspicious_pattern(value) == lower(value) = "null"

\* any(pattern in value for pattern in ['test', 'sample', 'example', 'placeholder'])
has_placeholder(value) == value \in {"test", "john@example.com"}

\* [int(y) for y in re.findall(r'\b(19|20)\d{2}\b', date_value)]: the group is the
\* century, so the year read from "01/15/1990" is 19
years_found(date_value) == IF date_value = "01/15/1990" THEN <<19>> ELSE <<>>

\* re.findall(r'[\d,]+', amount_value.replace('$', '')), the first one as a float
amounts_found(amount_value) ==
    CASE amount_value = "123-45-6789" -> <<123>>
      [] amount_value = "12345"       -> <<12345>>
      [] amount_value = "Jan 5"       -> <<5>>
      [] amount_value = "01/15/1990"  -> <<1>>
      [] OTHER                        -> <<>>

\* name.split()[0] for a name whose split() is not empty
first_word(name) ==
    CASE name = "John Smith" -> <<"John">>
      [] name = ""           -> <<>>
      [] OTHER               -> <<name>>

-----------------------------------------------------------------------------
(* EnhancedConfidenceScorer: the five sub-algorithms                       *)

\* field_value and str(field_value).strip() and str(field_value).lower() != 'null'
is_completed(field_value) ==
    truthy(field_value) /\ strip(field_value) # "" /\ lower(field_value) # "null"

RECURSIVE total_weight(_, _)
total_weight(fields, i) ==
    IF i > Len(fields.keys) THEN 0
    ELSE field_weight(fields.keys[i]) + total_weight(fields, i + 1)

RECURSIVE achieved_weight(_, _)
achieved_weight(fields, i) ==
    IF i > Len(fields.keys) THEN 0
    ELSE (IF is_completed(fields.val[fields.keys[i]]) THEN field_weight(fields.keys[i])
          ELSE 0)
         + achieved_weight(fields, i + 1)

_calculate_completion_confidence(data) ==
    IF ~truthy_arg(data) THEN Returns(PyFloat(0, 1))
    ELSE LET fields_to_check == fields_of(data)
         IN  IF fields_to_check.raised THEN Raised
             ELSE LET total    == total_weight(fields_to_check.value, 1)
                      achieved == achieved_weight(fields_to_check.value, 1)
                  IN  Returns(IF total > 0 THEN PyFloat(achieved, total)
                              ELSE PyFloat(0, 1))

_check_basic_validity(field_name, field_value) ==
    LET value == strip(field_value)
    IN  IF term_in_name("name", field_name)
        THEN IF is_letters_and_spaces(value) THEN PyFloat(1, 1)
             ELSE IF is_letters_spaces_dots(value) THEN PyFloat(7, 10)
             ELSE PyFloat(3, 10)
        ELSE IF term_in_name("address", field_name)
        THEN IF len(value) > 10 /\ has_digit(value) THEN PyFloat(1, 1)
             ELSE IF len(value) > 5 THEN PyFloat(7, 10)
             ELSE PyFloat(3, 10)
        ELSE IF \E term \in {"department", "company", "organization"} :
                   term_in_name(term, field_name)
        THEN IF is_organization_text(value) THEN PyFloat(1, 1) ELSE PyFloat(1, 2)
        ELSE IF len(value) > 1 /\ ~isdigit(value) THEN PyFloat(8, 10)
        ELSE PyFloat(1, 2)

\* a loop that scores every truthy value, blank or not
RECURSIVE validation_scores_unstripped(_, _)
validation_scores_unstripped(fields, i) ==
    IF i > Len(fields.keys) THEN <<>>
    ELSE LET field_name  == fields.keys[i]
             field_value == fields.val[field_name]
             rest        == validation_scores_unstripped(fields, i + 1)
         IN  IF truthy(field_value)
             THEN IF has_validation_pattern(field_name)
                  THEN <<IF matches_validation_pattern(field_name, strip(field_value))
                         THEN PyFloat(1, 1) ELSE PyFloat(0, 1)>> \o rest
                  ELSE <<_check_basic_validity(field_name, field_value)>> \o rest
             ELSE rest

RECURSIVE validation_scores(_, _)
validation_scores(fields, i) ==
    IF i > Len(fields.keys) THEN <<>>
    ELSE LET field_name  == fields.keys[i]
             field_value == fields.val[field_name]
             rest        == validation_scores(fields, i + 1)
         IN  IF truthy(field_value) /\ strip(field_value) # ""
             THEN IF has_validation_pattern(field_name)
                  THEN <<IF matches_validation_pattern(field_name, strip(field_value))
                         THEN PyFloat(1, 1) ELSE PyFloat(0, 1)>> \o rest
                  ELSE <<_check_basic_validity(field_name, field_value)>> \o rest
             ELSE rest

_calculate_validation_confidence(data) ==
    LET fields_to_validate == fields_of(data)
    IN  IF fields_to_validate.raised THEN Raised
        ELSE LET scores == validation_scores(fields_to_validate.value, 1)
             IN  Returns(IF scores # <<>> THEN mean(scores) ELSE PyFloat(1, 2))

\* template_classification.get(key, 0.5)
get_or_half(d, key) == IF key \in Range(d.keys) THEN d.val[key] ELSE PyFloat(1, 2)

_calculate_template_confidence(tc) ==
    IF ~truthy_arg(tc) THEN Returns(PyFloat(1, 2))
    ELSE IF tc.type # "dict" THEN Raised
    ELSE LET template_score            == get_or_half(tc, "template_match_score")
             classification_confidence == get_or_half(tc, "classification_confidence")
             state_info                == get_or_empty(tc, "state_regulations")
         IN  IF state_info.type # "dict" THEN Raised
             ELSE IF template_score.type = "str" \/ classification_confidence.type = "str"
                  THEN Raised
             ELSE LET state_confidence ==
                         IF /\ "compliance_needed" \in Range(state_info.keys)
                            /\ state_info.val["compliance_needed"]
                         THEN PyFloat(1, 1) ELSE PyFloat(8, 10)
                  IN  Returns(FAdd(FAdd(FMul(template_score, PyFloat(5, 10)),
                                        FMul(classification_confidence, PyFloat(3, 10))),
                                   FMul(state_confidence, PyFloat(2, 10))))

\* (length_score + variety_score + suspicious_score) / 3 of one value
field_quality(field_name, field_value) ==
    LET value == strip(field_value)
        length_score ==
            IF term_in_name("name", field_name)
            THEN IF 5 <= len(value) /\ len(value) <= 50 THEN PyFloat(1, 1)
                 ELSE PyFloat(1, 2)
            ELSE IF term_in_name("address", field_name)
            THEN IF 10 <= len(value) /\ len(value) <= 100 THEN PyFloat(1, 1)
                 ELSE PyFloat(7, 10)
            ELSE IF 2 <= len(value) /\ len(value) <= 100 THEN PyFloat(1, 1)
                 ELSE PyFloat(6, 10)
        char_variety == PyFloat(distinct_chars(value),
                                IF len(value) > 1 THEN len(value) ELSE 1)
        doubled == FMul(char_variety, PyFloat(2, 1))
        variety_score == IF FLT(PyFloat(1, 1), doubled) THEN PyFloat(1, 1) ELSE doubled
        suspicious_score ==
            IF has_suspicious_pattern(value) THEN PyFloat(0, 1) ELSE PyFloat(1, 1)
    IN  FMul(FAdd(FAdd(length_score, variety_score), suspicious_score), PyFloat(1, 3))

RECURSIVE quality_factors(_, _)
quality_factors(fields, i) ==
    IF i > Len(fields.keys) THEN <<>>
    ELSE LET field_name  == fields.keys[i]
             field_value == fields.val[field_name]
             rest        == quality_factors(fields, i + 1)
         IN  IF truthy(field_value) /\ strip(field_value) # ""
             THEN <<field_quality(field_name, field_value)>> \o rest
             ELSE rest

_calculate_data_quality_confidence(data) ==
    LET fields_to_check == fields_of(data)
    IN  IF fields_to_check.raised THEN Raised
        ELSE LET factors == quality_factors(fields_to_check.value, 1)
             IN  Returns(IF factors # <<>> THEN mean(factors) ELSE PyFloat(1, 2))

\* [k for k in fields_to_check.keys() if term in k.lower() for one of the terms]
RECURSIVE keys_with(_, _, _)
keys_with(fields, terms, i) ==
    IF i > Len(fields.keys) THEN <<>>
    ELSE (IF \E term \in terms : term_in_name(term, fields.keys[i])
          THEN <<fields.keys[i]>> ELSE <<>>)
         \o keys_with(fields, terms, i + 1)

\* first words of the truthy values of the name fields
RECURSIVE first_words(_, _, _)
first_words(fields, name_fields, i) ==
    IF i > Len(name_fields) THEN <<>>
    ELSE (IF truthy(fields.val[name_fields[i]])
          THEN first_word(strip(fields.val[name_fields[i]])) ELSE <<>>)
         \o first_words(fields, name_fields, i + 1)

RECURSIVE truthy_count(_, _, _)
truthy_count(fields, name_fields, i) ==
    IF i > Len(name_fields) THEN 0
    ELSE (IF truthy(fields.val[name_fields[i]]) THEN 1 ELSE 0)
         + truthy_count(fields, name_fields, i + 1)

name_consistency(fields) ==
    LET name_fields == keys_with(fields, {"name"}, 1)
    IN  IF Len(name_fields) > 1 /\ truthy_count(fields, name_fields, 1) > 1
        THEN <<IF Cardinality(Range(first_words(fields, name_fields, 1))) = 1
               THEN PyFloat(1, 1) ELSE PyFloat(1, 2)>>
        ELSE <<>>

current_year == 2024

RECURSIVE date_consistency(_, _, _)
date_consistency(fields, date_fields, i) ==
    IF i > Len(date_fields) THEN <<>>
    ELSE LET date_value == fields.val[date_fields[i]]
             years      == years_found(date_value)
         IN  (IF years # <<>>
              THEN <<IF 1900 <= years[1] /\ years[1] <= current_year
                     THEN PyFloat(1, 1) ELSE PyFloat(0, 1)>>
              ELSE <<>>)
             \o date_consistency(fields, date_fields, i + 1)

RECURSIVE amount_consistency(_, _, _)
amount_consistency(fields, amount_fields, i) ==
    IF i > Len(amount_fields) THEN <<>>
    ELSE LET amount_value == fields.val[amount_fields[i]]
             numbers      == amounts_found(amount_value)
         IN  (IF numbers # <<>>
              THEN <<IF 0 < numbers[1] /\ numbers[1] < 10000000
                     THEN PyFloat(1, 1) ELSE PyFloat(3, 10)>>
              ELSE <<>>)
             \o amount_consistency(fields, amount_fields, i + 1)

\* np.mean(...): the module never imports np, the call raises NameError
np_mean(list) == Raised

_calculate_consistency_confidence(data) ==
    LET fields_to_check == fields_of(data)
    IN  IF fields_to_check.raised THEN Raised
        ELSE LET fields == fields_to_check.value
                 consistency_scores ==
                     name_consistency(fields)
                     \o date_consistency(fields, keys_with(fields, {"date"}, 1), 1)
                     \o amount_consistency(
                            fields, keys_with(fields, {"amount", "salary", "premium"}, 1), 1)
             IN  IF consistency_scores # <<>> THEN np_mean(consistency_scores)
                 ELSE Returns(PyFloat(8, 10))

-----------------------------------------------------------------------------
(* EnhancedConfidenceScorer: ensemble, risk, grade, recommendations        *)

\* an ensemble that adds the five scores without their weights
unweighted_sum(completion, validation, template, quality, consistency) ==
    FAdd(FAdd(FAdd(FAdd(completion, validation), template), quality), consistency)

\* 0.25 * completion + 0.25 * validation + 0.20 * template + 0.15 * quality
\* + 0.15 * consistency
weighted_ensemble(completion, validation, template, quality, consistency) ==
    FAdd(FAdd(FAdd(FAdd(FMul(PyFloat(25, 100), completion),
                        FMul(PyFloat(25, 100), validation)),
                   FMul(PyFloat(20, 100), template)),
              FMul(PyFloat(15, 100), quality)),
         FMul(PyFloat(15, 100), consistency))

critical_fields == <<"name", "ssn", "social_security_number", "employee_id", "policy_number">>

RECURSIVE missing_critical(_, _)
missing_critical(fields, i) ==
    IF i > Len(critical_fields) THEN <<>>
    ELSE (IF /\ critical_fields[i] \in Range(fields.keys)
             /\ ~truthy(fields.val[critical_fields[i]])
          THEN <<critical_fields[i]>> ELSE <<>>)
         \o missing_critical(fields, i + 1)

RECURSIVE suspicious_values(_, _)
suspicious_values(fields, i) ==
    IF i > Len(fields.keys) THEN <<>>
    ELSE (IF /\ truthy(fields.val[fields.keys[i]])
             /\ has_placeholder(lower(fields.val[fields.keys[i]]))
          THEN <<<<"Suspicious value in", fields.keys[i]>>>> ELSE <<>>)
         \o suspicious_values(fields, i + 1)

formatted_fields == <<"ssn", "phone", "email">>

RECURSIVE format_issues(_, _)
format_issues(fields, i) ==
    IF i > Len(formatted_fields) THEN <<>>
    ELSE LET field == formatted_fields[i]
         IN  (IF /\ field \in Range(fields.keys)
                 /\ truthy(fields.val[field])
                 /\ has_validation_pattern(field)
                 /\ ~matches_validation_pattern(field, strip(fields.val[field]))
              THEN <<<<"Format issue in", field>>>> ELSE <<>>)
             \o format_issues(fields, i + 1)

\* overall < 0.6 raises TypeError when overall is complex
_assess_risk_factors(data, overall) ==
    LET fields_to_check == fields_of(data)
    IN  IF fields_to_check.raised THEN Raised
        ELSE IF overall.type # "float" THEN Raised
        ELSE LET fields  == fields_to_check.value
                 missing == missing_critical(fields, 1)
                 low     == FLT(overall, PyFloat(6, 10))
             IN  Returns(
                   [high_risk     |-> Len(missing) > 1 \/ low,
                    risk_reasons  |->
                        (IF missing # <<>> THEN <<<<"Missing critical fields", missing>>>>
                         ELSE <<>>)
                        \o (IF low THEN <<<<"Overall confidence below threshold">>>>
                            ELSE <<>>),
                    warning_signs |-> suspicious_values(fields, 1) \o format_issues(fields, 1)])

_assign_quality_grade(confidence) ==
    IF FGE(confidence, PyFloat(9, 10)) THEN "A"
    ELSE IF FGE(confidence, PyFloat(8, 10)) THEN "B"
    ELSE IF FGE(confidence, PyFloat(7, 10)) THEN "C"
    ELSE IF FGE(confidence, PyFloat(6, 10)) THEN "D"
    ELSE "F"

\* variant of _generate_recommendations without the final default
recommendations_without_default(confidence, risk_factors) ==
    (IF FLT(confidence, PyFloat(75, 100))
     THEN <<"Manual review recommended due to low confidence">> ELSE <<>>)
    \o (IF risk_factors.high_risk
        THEN <<"High risk factors detected - immediate review required">>
        ELSE <<>>)
    \o (IF risk_factors.warning_signs # <<>>
        THEN <<"Data quality issues detected - verify suspicious fields">>
        ELSE <<>>)
    \o (IF FGT(confidence, PyFloat(9, 10))
        THEN <<"High confidence extraction - safe for automated processing">>
        ELSE IF FGT(confidence, PyFloat(8, 10))
        THEN <<"Good confidence - spot check recommended">>
        ELSE <<>>)

_generate_recommendations(confidence, risk_factors) ==
    LET recommendations ==
            (IF FLT(confidence, PyFloat(75, 100))
             THEN <<"Manual review recommended due to low confidence">> ELSE <<>>)
            \o (IF risk_factors.high_risk
                THEN <<"High risk factors detected - immediate review required">>
                ELSE <<>>)
            \o (IF risk_factors.warning_signs # <<>>
                THEN <<"Data quality issues detected - verify suspicious fields">>
                ELSE <<>>)
            \o (IF FGT(confidence, PyFloat(9, 10))
                THEN <<"High confidence extraction - safe for automated processing">>
                ELSE IF FGT(confidence, PyFloat(8, 10))
                THEN <<"Good confidence - spot check recommended">>
                ELSE <<>>)
    IN  IF recommendations = <<>> THEN <<"Standard processing acceptable">>
        ELSE recommendations

\* variant of _get_fallback_confidence that reports the failure as a passing grade
fallback_without_review ==
    [overall_confidence |-> PyFloat(1, 2),
     algorithm_scores |->
         [completion_confidence  |-> PyFloat(1, 2),
          validation_confidence  |-> PyFloat(1, 2),
          template_confidence    |-> PyFloat(1, 2),
          quality_confidence     |-> PyFloat(1, 2),
          consistency_confidence |-> PyFloat(1, 2)],
     risk_assessment |->
         [high_risk     |-> FALSE,
          risk_reasons  |-> <<>>,
          warning_signs |-> <<>>],
     manual_review_required |-> FALSE,
     quality_grade |-> "D",
     recommendations |-> <<"Standard processing acceptable">>]

_get_fallback_confidence ==
    [overall_confidence |-> PyFloat(1, 2),
     algorithm_scores |->
         [completion_confidence  |-> PyFloat(1, 2),
          validation_confidence  |-> PyFloat(1, 2),
          template_confidence    |-> PyFloat(1, 2),
          quality_confidence     |-> PyFloat(1, 2),
          consistency_confidence |-> PyFloat(1, 2)],
     risk_assessment |->
         [high_risk     |-> TRUE,
          risk_reasons  |-> <<<<"Error in confidence calculation">>>>,
          warning_signs |-> <<>>],
     manual_review_required |-> TRUE,
     quality_grade |-> "F",
     recommendations |-> <<"Manual review required due to processing error">>]

\* for each rounded value of the report, the side a halfway value falls to
Roundings ==
    [{"overall_confidence", "completion_confidence", "validation_confidence",
      "template_confidence", "quality_confidence", "consistency_confidence"} -> BOOLEAN]

\* lines 96-112: the risk assessment and the result dict
build_result(data, completion, validation, template, quality, consistency, overall, up) ==
    LET risk_factors == _assess_risk_factors(data, overall)
    IN  IF risk_factors.raised THEN Raised
        ELSE Returns(
               [overall_confidence |-> round3(overall, up.overall_confidence),
                algorithm_scores |->
                    [completion_confidence  |-> round3(completion, up.completion_confidence),
                     validation_confidence  |-> round3(validation, up.validation_confidence),
                     template_confidence    |-> round3(template, up.template_confidence),
                     quality_confidence     |-> round3(quality, up.quality_confidence),
                     consistency_confidence |-> round3(consistency, up.consistency_confidence)],
                risk_assessment |-> risk_factors.value,
                manual_review_required |->
                    FLT(overall, PyFloat(75, 100)) \/ risk_factors.value.high_risk,
                quality_grade |-> _assign_quality_grade(overall),
                recommendations |-> _generate_recommendations(overall, risk_factors.value)])

\* calculate_ensemble_confidence as a function of its arguments: the five
\* sub-algorithms, the ensemble and the result dict, or the fallback report when
\* one of them raises
ensemble_report(data, tc, up) ==
    LET completion  == _calculate_completion_confidence(data)
        validation  == _calculate_validation_confidence(data)
        template    == _calculate_template_confidence(tc)
        quality     == _calculate_data_quality_confidence(data)
        consistency == _calculate_consistency_confidence(data)
    IN  IF \/ completion.raised \/ validation.raised \/ template.raised
           \/ quality.raised \/ consistency.raised
        THEN _get_fallback_confidence
        ELSE LET overall == weighted_ensemble(completion.value, validation.value,
                                              template.value, quality.value,
                                              consistency.value)
                 built   == build_result(data, completion.value, validation.value,
                                         template.value, quality.value,
                                         consistency.value, overall, up)
             IN  IF built.raised THEN _get_fallback_confidence ELSE built.value

-----------------------------------------------------------------------------
(* calculate_ensemble_confidence, one action per step                      *)

\* the dicts with some of the keys, in the order given, and a value of choices[key]
\* for each key that is there
RECURSIVE Dicts(_, _, _)
Dicts(keys, choices, i) ==
    IF i > Len(keys) THEN {PyDict(<<>>, EmptyDict)}
    ELSE LET rest == Dicts(keys, choices, i + 1)
         IN  rest \cup {PyDict(<<keys[i]>> \o m.keys, DictSet(m.val, keys[i], v)) :
                           v \in choices[keys[i]], m \in rest}

\* field values a caller passes: for "name" what an extraction can yield and two
\* placeholders, for "ssn" a well-formed and a malformed number, for "date" a date
\* with and without a year
FieldValues ==
    [name |-> {"", WhitespaceOnly, "John Smith", "null", "aaaa"},
     ssn  |-> {"", "123-45-6789", "12345"},
     date |-> {"", "Jan 5", "01/15/1990"}]

\* field values of a policy_info map
PolicyValues ==
    [name |-> {"John Smith"},
     ssn  |-> {"", "123-45-6789"}]

FlatMaps == Dicts(ScorerFields, FieldValues, 1)

\* {"extracted_fields": ...}: a field map, or a value that is not a map
WrappedMaps ==
    Dicts(<<"extracted_fields">>,
          [extracted_fields |-> Dicts(<<"name">>, FieldValues, 1) \cup {NonDict("str")}], 1)
    \ {PyDict(<<>>, EmptyDict)}

\* {"customer_info": ..., "policy_info": ...}: either may be missing or None
SplitMaps ==
    Dicts(<<"customer_info", "policy_info">>,
          [customer_info |-> Dicts(<<"name">>, FieldValues, 1) \cup {NonDict("NoneType")},
           policy_info   |-> Dicts(<<"name", "ssn">>, PolicyValues, 1)
                             \cup {NonDict("NoneType")}], 1)
    \ {PyDict(<<>>, EmptyDict)}

ExtractedData ==
    {NonDict("NoneType"), NonDict("str"), NonDict("list")}
    \cup FlatMaps \cup WrappedMaps \cup SplitMaps

\* template_classification: None, a str, or a dict with some of the three keys the
\* scorer reads; the scores are any number the caller supplies, or no number
TemplateClassifications ==
    {NonDict("NoneType"), NonDict("str")}
    \cup Dicts(<<"template_match_score", "classification_confidence", "state_regulations">>,
               [template_match_score |->
                    {PyFloat(606, 1000), PyFloat(676, 1000), PyFloat(3, 1), PyStr, PyComplex},
                classification_confidence |-> {PyFloat(1, 1)},
                state_regulations |->
                    {NonDict("NoneType"),
                     PyDict(<<"compliance_needed">>,
                            DictSet(EmptyDict, "compliance_needed", TRUE))}], 1)

NoResult == [type |-> "NoneType"]

ScorerInit ==
    /\ score_pc = "idle"
    /\ extracted_data = NonDict("NoneType")
    /\ template_classification = NonDict("NoneType")
    /\ completion_confidence = Unset
    /\ validation_confidence = Unset
    /\ template_confidence = Unset
    /\ quality_confidence = Unset
    /\ consistency_confidence = Unset
    /\ overall_confidence = Unset
    /\ result = NoResult
    /\ raised_at = <<>>

\* the steps inside the try block, in order
TrySteps ==
    <<"completion", "validation", "template", "quality", "consistency", "ensemble",
      "result">>

\* what the step at score_pc does: it raises, or it returns a value
step_outcome_with(up) ==
    CASE score_pc = "completion"  -> _calculate_completion_confidence(extracted_data)
      [] score_pc = "validation"  -> _calculate_validation_confidence(extracted_data)
      [] score_pc = "template"    -> _calculate_template_confidence(template_classification)
      [] score_pc = "quality"     -> _calculate_data_quality_confidence(extracted_data)
      [] score_pc = "consistency" -> _calculate_consistency_confidence(extracted_data)
      [] score_pc = "ensemble"    ->
            Returns(weighted_ensemble(completion_confidence, validation_confidence,
                                      template_confidence, quality_confidence,
                                      consistency_confidence))
      [] score_pc = "result"      ->
            build_result(extracted_data, completion_confidence, validation_confidence,
                         template_confidence, quality_confidence, consistency_confidence,
                         overall_confidence, up)
      [] OTHER                    -> Returns(Unset)

step_outcome == step_outcome_with(CHOOSE up \in Roundings : TRUE)

\* entry of calculate_ensemble_confidence: the arguments
ScoreCall ==
    /\ score_pc = "idle"
    /\ extracted_data' \in ExtractedData
    /\ template_classification' \in TemplateClassifications
    /\ score_pc' = "completion"
    /\ UNCHANGED <<completion_confidence, validation_confidence, template_confidence,
                   quality_confidence, consistency_confidence, overall_confidence,
                   result, raised_at>>
    /\ UNCHANGED outside_scorer

Completion ==
    /\ score_pc = "completion"
    /\ ~step_outcome.raised
    /\ completion_confidence' = step_outcome.value
    /\ score_pc' = "validation"
    /\ UNCHANGED <<extracted_data, template_classification, validation_confidence,
                   template_confidence, quality_confidence, consistency_confidence,
                   overall_confidence, result, raised_at>>
    /\ UNCHANGED outside_scorer

Validation ==
    /\ score_pc = "validation"
    /\ ~step_outcome.raised
    /\ validation_confidence' = step_outcome.value
    /\ score_pc' = "template"
    /\ UNCHANGED <<extracted_data, template_classification, completion_confidence,
                   template_confidence, quality_confidence, consistency_confidence,
                   overall_confidence, result, raised_at>>
    /\ UNCHANGED outside_scorer

Template ==
    /\ score_pc = "template"
    /\ ~step_outcome.raised
    /\ template_confidence' = step_outcome.value
    /\ score_pc' = "quality"
    /\ UNCHANGED <<extracted_data, template_classification, completion_confidence,
                   validation_confidence, quality_confidence, consistency_confidence,
                   overall_confidence, result, raised_at>>
    /\ UNCHANGED outside_scorer

Quality ==
    /\ score_pc = "quality"
    /\ ~step_outcome.raised
    /\ quality_confidence' = step_outcome.value
    /\ score_pc' = "consistency"
    /\ UNCHANGED <<extracted_data, template_classification, completion_confidence,
                   validation_confidence, template_confidence, consistency_confidence,
                   overall_confidence, result, raised_at>>
    /\ UNCHANGED outside_scorer

Consistency ==
    /\ score_pc = "consistency"
    /\ ~step_outcome.raised
    /\ consistency_confidence' = step_outcome.value
    /\ score_pc' = "ensemble"
    /\ UNCHANGED <<extracted_data, template_classification, completion_confidence,
                   validation_confidence, template_confidence, quality_confidence,
                   overall_confidence, result, raised_at>>
    /\ UNCHANGED outside_scorer

\* overall_confidence = 0.25 * ... (lines 88-94)
Ensemble ==
    /\ score_pc = "ensemble"
    /\ ~step_outcome.raised
    /\ overall_confidence' = step_outcome.value
    /\ score_pc' = "result"
    /\ UNCHANGED <<extracted_data, template_classification, completion_confidence,
                   validation_confidence, template_confidence, quality_confidence,
                   consistency_confidence, result, raised_at>>
    /\ UNCHANGED outside_scorer

\* risk assessment, result dict and return (lines 96-115)
Report ==
    /\ score_pc = "result"
    /\ \E up \in Roundings :
          /\ ~step_outcome_with(up).raised
          /\ result' = step_outcome_with(up).value
    /\ score_pc' = "returned"
    /\ UNCHANGED <<extracted_data, template_classification, completion_confidence,
                   validation_confidence, template_confidence, quality_confidence,
                   consistency_confidence, overall_confidence, raised_at>>
    /\ UNCHANGED outside_scorer

\* except Exception: log and return the fallback report (lines 117-119)
ScoringFailed ==
    /\ score_pc \in Range(TrySteps)
    /\ step_outcome.raised
    /\ raised_at' = Append(raised_at, score_pc)
    /\ result' = _get_fallback_confidence
    /\ score_pc' = "returned"
    /\ UNCHANGED <<extracted_data, template_classification, completion_confidence,
                   validation_confidence, template_confidence, quality_confidence,
                   consistency_confidence, overall_confidence>>
    /\ UNCHANGED outside_scorer

\* the caller takes the report; the scorer keeps no state between calls
ScoreReturn ==
    /\ score_pc = "returned"
    /\ score_pc' = "idle"
    /\ extracted_data' = NonDict("NoneType")
    /\ template_classification' = NonDict("NoneType")
    /\ completion_confidence' = Unset
    /\ validation_confidence' = Unset
    /\ template_confidence' = Unset
    /\ quality_confidence' = Unset
    /\ consistency_confidence' = Unset
    /\ overall_confidence' = Unset
    /\ result' = NoResult
    /\ raised_at' = <<>>
    /\ UNCHANGED outside_scorer

-----------------------------------------------------------------------------
(* calculate_ensemble_confidence on one field map passed in each shape     *)

\* values of a field map: for "name" and "date" a placeholder among them
ShapeValues ==
    [name |-> {"", "test", "John Smith"},
     ssn  |-> {"", "12345"},
     date |-> {"", "test", "01/15/1990"}]

ShapeMaps == Dicts(ScorerFields, ShapeValues, 1)

\* the entries of m whose key is in keys, in the order of m
RECURSIVE restrict(_, _, _)
restrict(m, keys, i) ==
    IF i > Len(m.keys) THEN PyDict(<<>>, EmptyDict)
    ELSE LET rest == restrict(m, keys, i + 1)
         IN  IF m.keys[i] \in keys
             THEN PyDict(<<m.keys[i]>> \o rest.keys,
                         DictSet(rest.val, m.keys[i], m.val[m.keys[i]]))
             ELSE rest

\* {"extracted_fields": m}
wrapped(m) == PyDict(<<"extracted_fields">>, DictSet(EmptyDict, "extracted_fields", m))

\* {"customer_info": c, "policy_info": p}
split_in(c, p) ==
    PyDict(<<"customer_info", "policy_info">>,
           DictSet(DictSet(EmptyDict, "customer_info", c), "policy_info", p))

\* m split into a customer part with the keys in keys and a policy part with the rest
split(m, keys) == split_in(restrict(m, keys, 1), restrict(m, Range(m.keys) \ keys, 1))

\* every {"customer_info": C, "policy_info": P} with C and P disjoint, C union P = m
Splits(m) == {split(m, keys) : keys \in SUBSET Range(m.keys)}

\* the splits whose merge has the keys in the order of m
OrderedSplits(m) ==
    {split(m, Range(SubSeq(m.keys, 1, k))) : k \in 0..Len(m.keys)}

ShapeTemplates ==
    {NonDict("NoneType"),
     PyDict(<<"template_match_score">>,
            DictSet(EmptyDict, "template_match_score", PyFloat(676, 1000)))}

\* entry of calculate_ensemble_confidence with a field map flat, wrapped or split
ScoreShaped ==
    /\ score_pc = "idle"
    /\ \E m \in ShapeMaps : extracted_data' \in {m, wrapped(m)} \cup Splits(m)
    /\ template_classification' \in ShapeTemplates
    /\ score_pc' = "completion"
    /\ UNCHANGED <<completion_confidence, validation_confidence, template_confidence,
                   quality_confidence, consistency_confidence, overall_confidence,
                   result, raised_at>>
    /\ UNCHANGED outside_scorer

\* values of the formatted fields: well-formed, malformed, blank
FormattedValues ==
    [name  |-> {"John Smith"},
     ssn   |-> {"", WhitespaceOnly, "123-45-6789", "12345"},
     phone |-> {"", "555-123-4567", "555-1234"},
     email |-> {"", "john@example.com", "john@"}]

FormattedMaps == Dicts(<<"name", "ssn", "phone", "email">>, FormattedValues, 1)

\* entry of calculate_ensemble_confidence with a map of formatted fields
ScoreFormatted ==
    /\ score_pc = "idle"
    /\ extracted_data' \in FormattedMaps
    /\ template_classification' \in ShapeTemplates \cup {NonDict("str")}
    /\ score_pc' = "completion"
    /\ UNCHANGED <<completion_confidence, validation_confidence, template_confidence,
                   quality_confidence, consistency_confidence, overall_confidence,
                   result, raised_at>>
    /\ UNCHANGED outside_scorer

\* values of two critical fields and of one other field: empty or well-formed
CriticalValues ==
    [name |-> {"", "John Smith"},
     ssn  |-> {"", "123-45-6789"},
     date |-> {"", "Jan 5", "01/15/1990"}]

CriticalMaps == Dicts(<<"name", "ssn", "date">>, CriticalValues, 1)

\* template classifications whose scores lie in [0, 1] or above it
CriticalTemplates ==
    {NonDict("NoneType")}
    \cup Dicts(<<"template_match_score", "classification_confidence">>,
               [template_match_score |-> {PyFloat(676, 1000), PyFloat(1, 1), PyFloat(5, 1)},
                classification_confidence |-> {PyFloat(1, 1)}], 1)

\* entry of calculate_ensemble_confidence with a map of critical fields
ScoreCritical ==
    /\ score_pc = "idle"
    /\ extracted_data' \in CriticalMaps
    /\ template_classification' \in CriticalTemplates
    /\ score_pc' = "completion"
    /\ UNCHANGED <<completion_confidence, validation_confidence, template_confidence,
                   quality_confidence, consistency_confidence, overall_confidence,
                   result, raised_at>>
    /\ UNCHANGED outside_scorer

CriticalNext ==
    \/ ScoreCritical
    \/ Completion
    \/ Validation
    \/ Template
    \/ Quality
    \/ Consistency
    \/ Ensemble
    \/ Report
    \/ ScoringFailed
    \/ ScoreReturn

FormattedNext ==
    \/ ScoreFormatted
    \/ Completion
    \/ Validation
    \/ Template
    \/ Quality
    \/ Consistency
    \/ Ensemble
    \/ Report
    \/ ScoringFailed
    \/ ScoreReturn

ShapeNext ==
    \/ ScoreShaped
    \/ Completion
    \/ Validation
    \/ Template
    \/ Quality
    \/ Consistency
    \/ Ensemble
    \/ Report
    \/ ScoringFailed
    \/ ScoreReturn

ScorerNext ==
    \/ ScoreCall
    \/ Completion
    \/ Validation
    \/ Template
    \/ Quality
    \/ Consistency
    \/ Ensemble
    \/ Report
    \/ ScoringFailed
    \/ ScoreReturn

-----------------------------------------------------------------------------
(* The consolidated map of an extraction, scored                           *)

\* no technique of the call found a value for any requested field
NothingFound ==
    \A t \in Range(technique_results.keys) :
        \A f \in DOMAIN technique_results.val[t] : technique_results.val[t][f] = ""

\* results["consolidated_results"] as the dict it is, keys in insertion order
RECURSIVE consolidated_dict(_, _)
consolidated_dict(fields, i) ==
    IF i = 0 THEN OD_Empty
    ELSE OD_Set(consolidated_dict(fields, i - 1), fields[i], consolidated_results[fields[i]])

\* extract_with_multiple_techniques returns from a call that found nothing, and
\* its caller passes the consolidated map to calculate_ensemble_confidence, with a
\* template classification
ScoreConsolidated ==
    /\ pc = "done"
    /\ score_pc = "idle"
    /\ NothingFound
    /\ LET d == consolidated_dict(requested_fields, Len(requested_fields))
       IN  extracted_data' = PyDict(d.keys, d.val)
    /\ template_classification' \in TemplateClassifications
    /\ score_pc' = "completion"
    /\ UNCHANGED <<completion_confidence, validation_confidence, template_confidence,
                   quality_confidence, consistency_confidence, overall_confidence,
                   result, raised_at>>
    /\ pc' = "idle"
    /\ doc' = EmptyDict
    /\ requested_fields' = <<>>
    /\ selected_techniques' = <<>>
    /\ was_default' = FALSE
    /\ idx' = 1
    /\ technique_results' = OD_Empty
    /\ technique_confidence_scores' = OD_Empty
    /\ consolidated_results' = EmptyDict
    /\ best_technique_per_field' = EmptyDict
    /\ overall_technique_ranking' = EmptyDict
    /\ error_log' = <<>>
    /\ UNCHANGED <<variant, techniques>>
    /\ UNCHANGED <<custom_vars, form_vars, conc_vars, helper_vars>>

\* the extractor is called while no scoring is under way
ExtractionStep == score_pc = "idle" /\ ExtractorNext

PipelineNext ==
    \/ ExtractionStep
    \/ ScoreConsolidated
    \/ Completion
    \/ Validation
    \/ Template
    \/ Quality
    \/ Consistency
    \/ Ensemble
    \/ Report
    \/ ScoringFailed
    \/ ScoreReturn

-----------------------------------------------------------------------------
(* SimpleDynamicExtractor.extract_custom_fields                            *)

MaxCustomFields == 2

\* the absence marker
None == "<None>"

\* raised by calling a bound method without its second argument
TypeError == "<TypeError>"

\* field names a caller requests in the model: a strategy key, the same with
\* spaces around it and with a capital, a key whose strategy is
\* _extract_contextual_field, and a name without a strategy
CustomFieldNames == {"name", " name ", "Name", "title", "zzz"}

\* self.extraction_strategies, the keys of the model
extraction_strategies ==
    [name |-> "_extract_name", title |-> "_extract_contextual_field"]

\* texts: what _extract_name(text) and _extract_contextual_field(text, 'zzz') return
CustomTexts == [_extract_name : {None, "John Smith"}, zzz : {None, "bar"}]

\* self.extraction_strategies[field_lower](text): _extract_name takes the text,
\* _extract_contextual_field also needs field_name
call_strategy(text, field_lower) ==
    IF extraction_strategies[field_lower] = "_extract_contextual_field"
    THEN TypeError
    ELSE text._extract_name

\* self._extract_contextual_field(text, field_clean), for a name without strategy
_extract_contextual_field(text, field_name) ==
    IF field_name = "zzz" THEN text.zzz ELSE None

\* body of the second loop up to `value = ...`
strategy_value(text, field) ==
    LET field_clean == strip(field)
        field_lower == normalize(field_clean)
    IN  IF field_lower \in DOMAIN extraction_strategies
        THEN call_strategy(text, field_lower)
        ELSE _extract_contextual_field(text, field_clean)

\* the first loop: results[field.strip()] = None
RECURSIVE initial_results(_, _, _)
initial_results(fields, i, results) ==
    IF i > Len(fields) THEN results
    ELSE initial_results(fields, i + 1, DictSet(results, strip(fields[i]), None))

CustomInit ==
    /\ custom_pc = "idle"
    /\ custom_text = [_extract_name |-> None, zzz |-> None]
    /\ field_list = <<>>
    /\ field_idx = 1
    /\ custom_results = EmptyDict

\* entry of extract_custom_fields and its first loop
CustomCall ==
    /\ custom_pc = "idle"
    /\ \E text \in CustomTexts, fields \in SeqsUpTo(CustomFieldNames, MaxCustomFields) :
          /\ custom_text' = text
          /\ field_list' = fields
          /\ custom_results' = initial_results(fields, 1, EmptyDict)
    /\ field_idx' = 1
    /\ custom_pc' = "extract"
    /\ UNCHANGED outside_custom

\* one iteration of the second loop: `if value: results[field_clean] = value`
ExtractField ==
    /\ custom_pc = "extract"
    /\ field_idx <= Len(field_list)
    /\ LET value == strategy_value(custom_text, field_list[field_idx])
       IN  /\ value # TypeError
           /\ custom_results' =
                 IF value # None
                 THEN DictSet(custom_results, strip(field_list[field_idx]), value)
                 ELSE custom_results
    /\ field_idx' = field_idx + 1
    /\ UNCHANGED <<custom_pc, custom_text, field_list>>
    /\ UNCHANGED outside_custom

\* one iteration of the second loop in which the strategy call raises: the
\* exception leaves extract_custom_fields
StrategyRaises ==
    /\ custom_pc = "extract"
    /\ field_idx <= Len(field_list)
    /\ strategy_value(custom_text, field_list[field_idx]) = TypeError
    /\ custom_pc' = "raised"
    /\ UNCHANGED <<custom_text, field_list, field_idx, custom_results>>
    /\ UNCHANGED outside_custom

\* return results
CustomReturn ==
    /\ custom_pc = "extract"
    /\ field_idx > Len(field_list)
    /\ custom_pc' = "returned"
    /\ UNCHANGED <<custom_text, field_list, field_idx, custom_results>>
    /\ UNCHANGED outside_custom

\* the caller has the result or the exception; the next call starts afresh
CustomDone ==
    /\ custom_pc \in {"returned", "raised"}
    /\ custom_pc' = "idle"
    /\ custom_text' = [_extract_name |-> None, zzz |-> None]
    /\ field_list' = <<>>
    /\ field_idx' = 1
    /\ custom_results' = EmptyDict
    /\ UNCHANGED outside_custom

CustomNext ==
    \/ CustomCall
    \/ ExtractField
    \/ StrategyRaises
    \/ CustomReturn
    \/ CustomDone

-----------------------------------------------------------------------------
(* _regex_pattern_matching on a text of "Label: value" lines               *)
(* A text is the sequence of its tokens: words of letters, " ", "\n", ":", *)
(* and tokens without letters or with an "@"; a capture is a sequence of   *)
(* tokens.  The texts of the model are shorter than the {2,50} limit.      *)

MaxLines == 3

MaxFormFields == 3

\* the lines a text of the model is made of
FormLines ==
    {[label |-> "Name",  value |-> <<"John", " ", "Smith">>],
     [label |-> "Name",  value |-> <<"Jane", " ", "Doe">>],
     [label |-> "SSN",   value |-> <<"123-45-6789">>],
     [label |-> "Email", value |-> <<"john@example.com">>]}

FormFields == {"name", "ssn", "email"}

\* "\n".join(label + ": " + value for every line)
RECURSIVE text_tokens(_, _)
text_tokens(lines, i) ==
    IF i > Len(lines) THEN <<>>
    ELSE <<lines[i].label, ":", " ">> \o lines[i].value
         \o (IF i < Len(lines) THEN <<"\n">> ELSE <<>>) \o text_tokens(lines, i + 1)

\* tokens matched by [A-Za-z\s]
in_letters_or_space(token) ==
    token \in {"Name", "SSN", "Email", "John", "Smith", "Jane", "Doe", " ", "\n"}

\* where [:\s]* ends when it starts at i
RECURSIVE skip_separators(_, _)
skip_separators(tokens, i) ==
    IF i <= Len(tokens) /\ tokens[i] \in {":", " ", "\n"}
    THEN skip_separators(tokens, i + 1) ELSE i

\* what the greedy group ([A-Za-z\s]{2,50}) takes when it starts at i
RECURSIVE letters_run(_, _)
letters_run(tokens, i) ==
    IF i <= Len(tokens) /\ in_letters_or_space(tokens[i])
    THEN <<tokens[i]>> \o letters_run(tokens, i + 1) ELSE <<>>

\* what the group of a pattern takes at i: for "name" the run of letters and
\* white space, for "ssn" and "email" one token of that shape
group_at(tokens, field, i) ==
    CASE field = "name"  -> letters_run(tokens, i)
      [] field = "ssn"   -> IF i <= Len(tokens) /\ tokens[i] = "123-45-6789"
                            THEN <<tokens[i]>> ELSE <<>>
      [] field = "email" -> IF i <= Len(tokens) /\ tokens[i] = "john@example.com"
                            THEN <<tokens[i]>> ELSE <<>>

\* re.findall(pattern, text)[0] for the first pattern of a field,
\* (?i)(?:keyword)[:\s]*(group): the leftmost keyword that the group follows
RECURSIVE labelled_capture(_, _, _)
labelled_capture(tokens, field, i) ==
    IF i > Len(tokens) THEN <<>>
    ELSE LET group == group_at(tokens, field, skip_separators(tokens, i + 1))
         IN  IF lower(tokens[i]) = field /\ group # <<>> THEN group
             ELSE labelled_capture(tokens, field, i + 1)

\* re.findall(pattern, text)[0] for the second pattern of "ssn" and "email",
\* which has no keyword and no group: the leftmost token of the shape
RECURSIVE bare_capture(_, _, _)
bare_capture(tokens, field, i) ==
    IF i > Len(tokens) \/ field = "name" THEN <<>>
    ELSE IF group_at(tokens, field, i) # <<>> THEN group_at(tokens, field, i)
    ELSE bare_capture(tokens, field, i + 1)

\* the loop over self.regex_patterns[field] with its break; the later patterns
\* of "name" match only where the first one does
first_match(tokens, field) ==
    IF labelled_capture(tokens, field, 1) # <<>> THEN labelled_capture(tokens, field, 1)
    ELSE bare_capture(tokens, field, 1)

\* the loop `for field in fields` of _regex_pattern_matching
RECURSIVE regex_loop(_, _, _, _, _)
regex_loop(tokens, fields, i, extracted, successful) ==
    IF i > Len(fields)
    THEN [extracted_fields |-> extracted,
          confidence_score |-> IF Len(fields) > 0 THEN Frac(successful, Len(fields))
                                                  ELSE Zero]
    ELSE LET match == IF fields[i] \in LibraryFields
                      THEN first_match(tokens, fields[i]) ELSE <<>>
         IN  regex_loop(tokens, fields, i + 1, DictSet(extracted, fields[i], match),
                        successful + (IF match # <<>> THEN 1 ELSE 0))

_regex_pattern_matching(lines, fields) ==
    regex_loop(text_tokens(lines, 1), fields, 1, EmptyDict, 0)

NoFormResult == [extracted_fields |-> EmptyDict, confidence_score |-> Zero]

FormInit ==
    /\ form_pc = "idle"
    /\ form_lines = <<>>
    /\ form_fields = <<>>
    /\ form_result = NoFormResult

\* entry of _regex_pattern_matching: the arguments
FormCall ==
    /\ form_pc = "idle"
    /\ form_lines' \in SeqsUpTo(FormLines, MaxLines)
    /\ form_fields' \in SeqsUpTo(FormFields, MaxFormFields)
    /\ form_pc' = "called"
    /\ UNCHANGED form_result
    /\ UNCHANGED outside_form

\* the body of _regex_pattern_matching and its return
FormRun ==
    /\ form_pc = "called"
    /\ form_result' = _regex_pattern_matching(form_lines, form_fields)
    /\ form_pc' = "returned"
    /\ UNCHANGED <<form_lines, form_fields>>
    /\ UNCHANGED outside_form

\* the caller has the result; the next call starts afresh
FormDone ==
    /\ form_pc = "returned"
    /\ form_pc' = "idle"
    /\ form_lines' = <<>>
    /\ form_fields' = <<>>
    /\ form_result' = NoFormResult
    /\ UNCHANGED outside_form

FormNext ==
    \/ FormCall
    \/ FormRun
    \/ FormDone

-----------------------------------------------------------------------------
(* Concurrent calls on the module-level extractor and scorer instances     *)

\* request threads of the API process
Threads == {1, 2}

\* self.regex_patterns, self.fuzzy_keywords, self.field_weights and
\* self.validation_patterns as __init__ leaves them (self.techniques is the
\* variable techniques)
InstanceInit ==
    [regex_patterns      |-> LibraryFields,
     fuzzy_keywords      |-> LibraryFields,
     field_weights       |-> [f \in Range(ScorerFields) |-> field_weight(f)],
     validation_patterns |-> {f \in Range(ScorerFields) : has_validation_pattern(f)}]

NoReturn == [type |-> "NoneType"]

\* a thread that is running neither method
IdleFrame ==
    [method |-> "none", pos |-> "idle",
     text |-> EmptyDict, fields |-> <<>>, selected |-> <<>>, at |-> 1,
     results |-> OD_Empty, scores |-> OD_Empty,
     data |-> NonDict("NoneType"), classification |-> NonDict("NoneType"),
     partial |-> <<>>, returned |-> NoReturn]

\* texts of the concurrent requests: what each technique finds for "name"
ConcTexts ==
    {[regex_pattern_matching |-> [name |-> "John Smith"],
      fuzzy_string_matching  |-> [name |-> "Jane Doe"]],
     [regex_pattern_matching |-> [name |-> WhitespaceOnly],
      fuzzy_string_matching  |-> [name |-> "John Smith"]]}

ConcSelectable ==
    {"regex_pattern_matching", "fuzzy_string_matching", "no_such_technique"}

ConcData ==
    {PyDict(<<"name">>, DictSet(EmptyDict, "name", "John Smith")),
     PyDict(<<"name", "ssn">>,
            DictSet(DictSet(EmptyDict, "name", ""), "ssn", "12345")),
     NonDict("NoneType")}

\* technique_func(text, requested_fields) on the text of one frame
RECURSIVE technique_on(_, _, _, _, _, _)
technique_on(text, t, fields, i, extracted, successful) ==
    IF i > Len(fields)
    THEN [raised |-> FALSE,
          extracted_fields |-> extracted,
          confidence_score |-> IF Len(fields) > 0 THEN Frac(successful, Len(fields))
                                                  ELSE Zero]
    ELSE LET o == IF fields[i] \in LibraryFields /\ t \in DOMAIN text
                  THEN text[t][fields[i]] ELSE ""
         IN  technique_on(text, t, fields, i + 1, DictSet(extracted, fields[i], o),
                          successful + (IF o # "" THEN 1 ELSE 0))

\* one step of extract_with_multiple_techniques in frame f: an iteration of the
\* loop over selected_techniques, or lines 121-134 after the loop
extract_step(registered, f) ==
    IF f.at <= Len(f.selected)
    THEN LET technique_name == f.selected[f.at]
             technique_result == technique_on(f.text, technique_name, f.fields, 1,
                                              EmptyDict, 0)
         IN  IF technique_name \notin Range(registered)
             THEN [f EXCEPT !.at = f.at + 1]
             ELSE [f EXCEPT !.at = f.at + 1,
                            !.results = OD_Set(f.results, technique_name,
                                               technique_result.extracted_fields),
                            !.scores = OD_Set(f.scores, technique_name,
                                              technique_result.confidence_score)]
    ELSE [f EXCEPT
            !.pos = "returned",
            !.returned =
                [technique_results |-> f.results,
                 consolidated_results |-> _consolidate_results(f.results, f.fields),
                 technique_confidence_scores |-> f.scores,
                 best_technique_per_field |->
                     _find_best_technique_per_field(f.results, f.scores, f.fields),
                 overall_technique_ranking |-> _rank_techniques_overall(f.scores)]]

\* what the step of calculate_ensemble_confidence at f.pos gives in frame f
score_outcome(f, up) ==
    CASE f.pos = "completion"  -> _calculate_completion_confidence(f.data)
      [] f.pos = "validation"  -> _calculate_validation_confidence(f.data)
      [] f.pos = "template"    -> _calculate_template_confidence(f.classification)
      [] f.pos = "quality"     -> _calculate_data_quality_confidence(f.data)
      [] f.pos = "consistency" -> _calculate_consistency_confidence(f.data)
      [] f.pos = "ensemble"    ->
            Returns(weighted_ensemble(f.partial[1], f.partial[2], f.partial[3],
                                      f.partial[4], f.partial[5]))
      [] f.pos = "result"      ->
            build_result(f.data, f.partial[1], f.partial[2], f.partial[3],
                         f.partial[4], f.partial[5], f.partial[6], up)

\* one step of calculate_ensemble_confidence in frame f
score_step(f, up) ==
    LET outcome == score_outcome(f, up)
        k == CHOOSE j \in DOMAIN TrySteps : TrySteps[j] = f.pos
    IN  IF outcome.raised
        THEN [f EXCEPT !.pos = "returned", !.returned = _get_fallback_confidence]
        ELSE IF f.pos = "result"
        THEN [f EXCEPT !.pos = "returned", !.returned = outcome.value]
        ELSE [f EXCEPT !.pos = TrySteps[k + 1],
                       !.partial = Append(f.partial, outcome.value)]

\* a results dict that is one object for all frames
store_shared(frames, t, f) ==
    [u \in DOMAIN frames |->
        IF u = t THEN f
        ELSE [frames[u] EXCEPT !.results = f.results, !.scores = f.scores]]

\* the frame of thread t after its step: results, scores and the sub-scores are
\* locals of the call
store(frames, t, f) == [frames EXCEPT ![t] = f]

ConcInit ==
    /\ invocation = [t \in Threads |-> IdleFrame]
    /\ instance = InstanceInit

\* a request thread enters extract_with_multiple_techniques
ConcExtractCall ==
    /\ \E t \in Threads :
          /\ invocation[t].pos = "idle"
          /\ \E text \in ConcTexts, selected \in SeqsUpTo(ConcSelectable, 2) :
                invocation' =
                    store(invocation, t,
                          [IdleFrame EXCEPT !.method = "extract", !.pos = "loop",
                                            !.text = text, !.fields = <<"name">>,
                                            !.selected = selected])
    /\ UNCHANGED <<instance, techniques>>
    /\ UNCHANGED outside_conc

ConcExtractStep ==
    /\ \E t \in Threads :
          /\ invocation[t].method = "extract"
          /\ invocation[t].pos = "loop"
          /\ invocation' = store(invocation, t, extract_step(techniques, invocation[t]))
    /\ UNCHANGED <<instance, techniques>>
    /\ UNCHANGED outside_conc

\* a request thread enters calculate_ensemble_confidence
ConcScoreCall ==
    /\ \E t \in Threads :
          /\ invocation[t].pos = "idle"
          /\ \E data \in ConcData, tc \in ShapeTemplates :
                invocation' =
                    store(invocation, t,
                          [IdleFrame EXCEPT !.method = "score", !.pos = "completion",
                                            !.data = data, !.classification = tc])
    /\ UNCHANGED <<instance, techniques>>
    /\ UNCHANGED outside_conc

ConcScoreStep ==
    /\ \E t \in Threads, up \in Roundings :
          /\ invocation[t].method = "score"
          /\ invocation[t].pos \in Range(TrySteps)
          /\ invocation' = store(invocation, t, score_step(invocation[t], up))
    /\ UNCHANGED <<instance, techniques>>
    /\ UNCHANGED outside_conc

\* the endpoint takes what the call returned; the thread serves the next request
ConcTake ==
    /\ \E t \in Threads :
          /\ invocation[t].pos = "returned"
          /\ invocation' = store(invocation, t, IdleFrame)
    /\ UNCHANGED <<instance, techniques>>
    /\ UNCHANGED outside_conc

ConcNext ==
    \/ ConcExtractCall
    \/ ConcExtractStep
    \/ ConcScoreCall
    \/ ConcScoreStep
    \/ ConcTake

-----------------------------------------------------------------------------
(* Direct calls of the helpers of single techniques                        *)

NoArgs == [helper |-> "none"]

NoValue == "<no value>"

HelperInit ==
    /\ helper_pc = "idle"
    /\ helper_args = NoArgs
    /\ helper_result = NoValue

\* the caller takes the value; the helper keeps nothing
HelperDone ==
    /\ helper_pc = "returned"
    /\ helper_pc' = "idle"
    /\ helper_args' = NoArgs
    /\ helper_result' = NoValue
    /\ UNCHANGED outside_helper

-----------------------------------------------------------------------------
(* _vote_on_candidates                                                     *)

\* longest pool of candidates
MaxPool == 4

\* candidates for "ssn": two that pass the strict format and two that do not
VoteCandidates == {"123-45-6789", "987-65-4321", "12345", "123456789"}

\* _validate_field_format(value, "ssn"): re.match(r'^\d{3}-\d{2}-\d{4}$', value)
_validate_field_format(value, field_type) ==
    IF field_type = "ssn" THEN value \in {"123-45-6789", "987-65-4321"} ELSE TRUE

\* a loop body that scores a candidate once, when it is first seen
vote_add_once(candidates, field_type, i, score) ==
    IF \E j \in 1..(i - 1) : candidates[j] = candidates[i] THEN score
    ELSE score + Count(candidates[i], candidates)
         + (IF _validate_field_format(candidates[i], field_type) THEN 5 ELSE 0)

\* the loop body for candidates[i]: its score so far plus candidates.count(candidate)
\* plus the validity bonus
vote_add(candidates, field_type, i, score) ==
    score + Count(candidates[i], candidates)
    + (IF _validate_field_format(candidates[i], field_type) THEN 5 ELSE 0)

\* for candidate in candidates: candidate_scores[candidate] += ...
RECURSIVE vote_scores(_, _, _, _)
vote_scores(candidates, field_type, i, candidate_scores) ==
    IF i > Len(candidates) THEN candidate_scores
    ELSE LET candidate == candidates[i]
             before == IF candidate \in Range(candidate_scores.keys)
                       THEN candidate_scores.val[candidate] ELSE 0
         IN  vote_scores(candidates, field_type, i + 1,
                         OD_Set(candidate_scores, candidate,
                                vote_add(candidates, field_type, i, before)))

\* max(candidate_scores.keys(), key=...): the first key with the largest score
RECURSIVE max_by_score(_, _, _)
max_by_score(candidate_scores, i, best) ==
    IF i > Len(candidate_scores.keys) THEN best
    ELSE LET k == candidate_scores.keys[i]
         IN  max_by_score(candidate_scores, i + 1,
                          IF candidate_scores.val[k] > candidate_scores.val[best]
                          THEN k ELSE best)

_vote_on_candidates(candidates, field_type) ==
    IF candidates = <<>> THEN ""
    ELSE LET candidate_scores == vote_scores(candidates, field_type, 1, OD_Empty)
         IN  max_by_score(candidate_scores, 2, candidate_scores.keys[1])

VoteCall ==
    /\ helper_pc = "idle"
    /\ \E candidates \in SeqsUpTo(VoteCandidates, MaxPool) :
          helper_args' = [helper |-> "_vote_on_candidates",
                          candidates |-> candidates, field_type |-> "ssn"]
    /\ helper_pc' = "called"
    /\ UNCHANGED helper_result
    /\ UNCHANGED outside_helper

VoteRun ==
    /\ helper_pc = "called"
    /\ helper_args.helper = "_vote_on_candidates"
    /\ helper_result' = _vote_on_candidates(helper_args.candidates, helper_args.field_type)
    /\ helper_pc' = "returned"
    /\ UNCHANGED helper_args
    /\ UNCHANGED outside_helper

VoteNext ==
    \/ VoteCall
    \/ VoteRun
    \/ HelperDone

-----------------------------------------------------------------------------
(* _position_based_extraction                                              *)

\* most lines of a document
MaxDocLines == 12

\* most lines of a document that hold a value of the field
MaxValued == 2

\* a line without a match for the field
Filler == ""

\* the values a line can hold for the field that is searched
LineValues == {"v1", "v2"}

PositionFields == {"name", "employee_id", "ssn", "date", "amount", "salary", "email"}

\* text.split('\n') of the documents: every line is filler or holds a value
PositionDocs ==
    {lines \in UNION {[1..n -> {Filler} \cup LineValues] : n \in 1..MaxDocLines} :
        Cardinality({i \in DOMAIN lines : lines[i] # Filler}) <= MaxValued}

Min(a, b) == IF a < b THEN a ELSE b

Max(a, b) == IF a > b THEN a ELSE b

\* lines[start:stop] for start, stop >= 0
py_slice(lines, start, stop) ==
    SubSeq(lines, Min(start, Len(lines)) + 1, Min(stop, Len(lines)))

\* a window that takes the whole document for every field
whole_document(lines, field) == lines

\* the lines that _position_based_extraction hands to _search_in_lines
position_window(lines, field) ==
    IF field \in {"name", "employee_id"} THEN py_slice(lines, 0, 5)
    ELSE IF field \in {"ssn", "date"}
    THEN py_slice(lines, Len(lines) \div 4, (3 * Len(lines)) \div 4)
    ELSE IF field \in {"amount", "salary"}
    THEN py_slice(lines, Max(Len(lines) - 10, 0), Len(lines))
    ELSE lines

\* the first match of the field's patterns in the first line that has one
RECURSIVE _search_in_lines(_, _, _)
_search_in_lines(lines, field, i) ==
    IF i > Len(lines) THEN ""
    ELSE IF field \in LibraryFields /\ lines[i] # Filler THEN lines[i]
    ELSE _search_in_lines(lines, field, i + 1)

PositionCall ==
    /\ helper_pc = "idle"
    /\ \E lines \in PositionDocs, field \in PositionFields :
          helper_args' = [helper |-> "_position_based_extraction",
                          lines |-> lines, field |-> field]
    /\ helper_pc' = "called"
    /\ UNCHANGED helper_result
    /\ UNCHANGED outside_helper

\* the body of the loop for the field: value = self._search_in_lines(window, field)
PositionRun ==
    /\ helper_pc = "called"
    /\ helper_args.helper = "_position_based_extraction"
    /\ helper_result' =
          _search_in_lines(position_window(helper_args.lines, helper_args.field),
                           helper_args.field, 1)
    /\ helper_pc' = "returned"
    /\ UNCHANGED helper_args
    /\ UNCHANGED outside_helper

PositionNext ==
    \/ PositionCall
    \/ PositionRun
    \/ HelperDone

-----------------------------------------------------------------------------
(* _confidence_weighted_extraction                                         *)
(* Confidences are in hundredths.                                          *)

\* most matches of one pattern, and most candidates of one other method
MaxMatches == 2

WeightedFields == {"name", "ssn", "salary"}

\* len(self.regex_patterns[field]); 0 for a field without an entry
pattern_count(field) ==
    IF field = "name" THEN 3 ELSE IF field \in LibraryFields THEN 2 ELSE 0

\* field in self.fuzzy_keywords (and in self.context_words): the same keys
has_keywords(field) == field \in LibraryFields

Pair(value, confidence) == [value |-> value, confidence |-> confidence]

\* re.findall(pattern, text) for each pattern of the field, from pattern 0 on
MatchLists(field) == [1..pattern_count(field) -> SeqsUpTo(LineValues, MaxMatches)]

\* the ratios above 70 of fuzz.partial_ratio, as confidences
FuzzyConfidences == {71, 100}

\* min(context_score / len(context_words[field]), 1.0)
ContextConfidences(field) == IF field = "name" THEN {20, 60, 100} ELSE {25, 50, 100}

\* the candidates of the methods after the regex method, in collection order
OtherCandidates(field, v) ==
    IF ~has_keywords(field) THEN {<<>>}
    ELSE IF v = "simple"
    THEN {[i \in DOMAIN c |-> Pair(c[i], 70)] : c \in SeqsUpTo(LineValues, MaxMatches)}
    ELSE {f \o c : f \in SeqsUpTo({Pair(x, r) : x \in LineValues, r \in FuzzyConfidences}, 1),
                   c \in SeqsUpTo({Pair(x, r) : x \in LineValues, r \in ContextConfidences(field)}, 1)}

\* a regex confidence that does not depend on the pattern
regex_confidence_low(i) == 40

\* confidence = 0.8 + (i * 0.1)
regex_confidence(i) == 80 + i * 10

\* _get_regex_candidates_with_confidence: the patterns from index i - 1 on
RECURSIVE _get_regex_candidates_with_confidence(_, _)
_get_regex_candidates_with_confidence(matches, i) ==
    IF i > Len(matches) THEN <<>>
    ELSE [k \in DOMAIN matches[i] |-> Pair(matches[i][k], regex_confidence(i - 1))]
         \o _get_regex_candidates_with_confidence(matches, i + 1)

\* candidates_with_scores after both extend calls
candidates_with_scores(matches, others) ==
    _get_regex_candidates_with_confidence(matches, 1) \o others

\* max(pairs, key=lambda x: x[1]) that keeps the last of equal pairs
RECURSIVE last_max_pair(_, _, _)
last_max_pair(pairs, i, best) ==
    IF i > Len(pairs) THEN best
    ELSE last_max_pair(pairs, i + 1,
                       IF pairs[i].confidence >= best.confidence THEN pairs[i] ELSE best)

\* max(pairs, key=lambda x: x[1]): a later pair replaces the best one only
\* if its key is greater
RECURSIVE max_pair(_, _, _)
max_pair(pairs, i, best) ==
    IF i > Len(pairs) THEN best
    ELSE max_pair(pairs, i + 1,
                  IF pairs[i].confidence > best.confidence THEN pairs[i] ELSE best)

\* extracted[field] of _confidence_weighted_extraction
weighted_value(pairs) ==
    IF pairs # <<>>
    THEN LET best_candidate == max_pair(pairs, 2, pairs[1])
         IN  IF best_candidate.confidence > 50 THEN best_candidate.value ELSE ""
    ELSE ""

WeightedCall ==
    /\ helper_pc = "idle"
    /\ \E field \in WeightedFields, v \in {"simple", "full"} :
          \E matches \in MatchLists(field), others \in OtherCandidates(field, v) :
              helper_args' = [helper |-> "_confidence_weighted_extraction",
                              class |-> v, field |-> field,
                              matches |-> matches, others |-> others]
    /\ helper_pc' = "called"
    /\ UNCHANGED helper_result
    /\ UNCHANGED outside_helper

WeightedRun ==
    /\ helper_pc = "called"
    /\ helper_args.helper = "_confidence_weighted_extraction"
    /\ helper_result' =
          weighted_value(candidates_with_scores(helper_args.matches, helper_args.others))
    /\ helper_pc' = "returned"
    /\ UNCHANGED helper_args
    /\ UNCHANGED outside_helper

WeightedNext ==
    \/ WeightedCall
    \/ WeightedRun
    \/ HelperDone

-----------------------------------------------------------------------------
(* Specifications                                                          *)

vars == <<extractor_vars, scorer_vars, custom_vars, form_vars, conc_vars, helper_vars>>

Init == ExtractorInit /\ ScorerInit /\ CustomInit /\ FormInit /\ ConcInit /\ HelperInit

Next == ExtractorNext

\* calls of extract_with_multiple_techniques on an instance of either class
Spec == Init /\ [][Next]_vars

\* calls of calculate_ensemble_confidence on an EnhancedConfidenceScorer
ScorerSpecInit == Init /\ variant = "simple"

ScorerSpec == ScorerSpecInit /\ [][ScorerNext]_vars

\* calls of extract_with_multiple_techniques, each followed by the scoring of its
\* consolidated map when no technique found a value
PipelineSpec == Init /\ [][PipelineNext]_vars

\* calls of extract_custom_fields on a SimpleDynamicExtractor
CustomSpecInit == Init /\ variant = "simple"

CustomSpec == CustomSpecInit /\ [][CustomNext]_vars

\* direct calls of _regex_pattern_matching with texts of "Label: value" lines
ConcSpecInit == Init /\ variant = "simple"
ConcSpec == ConcSpecInit /\ [][ConcNext]_vars

ShapeSpecInit == Init /\ variant = "simple"

FormattedSpecInit == Init /\ variant = "simple"
FormattedSpec == FormattedSpecInit /\ [][FormattedNext]_vars

CriticalSpecInit == Init /\ variant = "simple"
CriticalSpec == CriticalSpecInit /\ [][CriticalNext]_vars

WeightedSpecInit == Init /\ variant = "simple"
WeightedSpec == WeightedSpecInit /\ [][WeightedNext]_vars

PositionSpecInit == Init /\ variant = "simple"
PositionSpec == PositionSpecInit /\ [][PositionNext]_vars

VoteSpecInit == Init /\ variant = "simple"
VoteSpec == VoteSpecInit /\ [][VoteNext]_vars
ShapeSpec == ShapeSpecInit /\ [][ShapeNext]_vars

FormSpecInit == Init /\ variant = "simple"

FormSpec == FormSpecInit /\ [][FormNext]_vars

-----------------------------------------------------------------------------
(* Properties of extract_with_multiple_techniques                          *)

ran == WillRun(techniques, selected_techniques)

\* what technique t finds for each requested field when it is the only one run
ExpectedFields(t) ==
    [f \in Range(requested_fields) |-> IF f \in LibraryFields THEN doc[t][f] ELSE ""]

\* t meets an exception at some requested field
Fails(t) == \E f \in Range(requested_fields) : ExpectedFields(t)[f] = ERR

\* number of positions of requested_fields at which t finds a non-empty value
Found(t) ==
    Cardinality({i \in DOMAIN requested_fields :
                    ExpectedFields(t)[requested_fields[i]] \notin {"", ERR}})

\* the techniques whose recorded value for field f is x
Returned(f, x) ==
    {t \in Range(technique_results.keys) :
        f \in DOMAIN technique_results.val[t] /\ technique_results.val[t][f] = x}

\* the values recorded for field f
ReturnedValues(f) ==
    {technique_results.val[t][f] :
        t \in {u \in Range(technique_results.keys) : f \in DOMAIN technique_results.val[u]}}

\* position of the first execution of a technique that returned x for f
FirstRun(f, x) ==
    CHOOSE i \in DOMAIN selected_techniques :
        /\ selected_techniques[i] \in Returned(f, x)
        /\ \A j \in 1..(i - 1) : selected_techniques[j] \notin Returned(f, x)

\* C1: when extract_with_multiple_techniques returns, the key set of
\* consolidated_results and of best_technique_per_field is exactly the set of the
\* requested field names, whatever was selected and whatever failed.
C1_OutputKeysAreRequested ==
    pc = "done" =>
        /\ DOMAIN consolidated_results = Range(requested_fields)
        /\ DOMAIN best_technique_per_field = Range(requested_fields)

\* a call returned in which a technique raised, one field is empty and one is not
C1_Witness ==
    /\ pc = "done"
    /\ error_log # <<>>
    /\ \E f, g \in Range(requested_fields) :
          consolidated_results[f] = "" /\ consolidated_results[g] # ""

\* C2: for a non-empty requested_fields list, the keys of every entry of
\* technique_results are exactly the requested fields, also for a technique that
\* raised.
C2_TechniqueKeysAreRequested ==
    requested_fields # <<>> =>
        \A t \in Range(technique_results.keys) :
            DOMAIN technique_results.val[t] = Range(requested_fields)

\* C3: when some techniques raise, the call still returns; each technique that
\* raised is recorded with an empty field map and confidence 0.0, and every other
\* selected registered technique has been run, in order, with the result it has
\* when nothing fails.
C3_FailureIsIsolated ==
    /\ pc = "loop" =>
        /\ idx <= Len(selected_techniques) + 1
        /\ \A a \in 1..(idx - 1) :
              selected_techniques[a] \in Range(techniques) =>
                  selected_techniques[a] \in Range(technique_results.keys)
    /\ pc = "done" =>
        /\ Range(technique_results.keys) = ran
        /\ technique_confidence_scores.keys = technique_results.keys
        /\ \A i, j \in DOMAIN technique_results.keys :
              i < j => \E a \in DOMAIN selected_techniques :
                          /\ selected_techniques[a] = technique_results.keys[i]
                          /\ \A b \in 1..a : selected_techniques[b] # technique_results.keys[j]
        /\ \A t \in ran :
              IF Fails(t)
              THEN /\ t \in Range(error_log)
                   /\ technique_results.val[t] = EmptyDict
                   /\ technique_confidence_scores.val[t] = Zero
              ELSE /\ t \notin Range(error_log)
                   /\ technique_results.val[t] = ExpectedFields(t)
                   /\ FracEQ(technique_confidence_scores.val[t],
                             IF requested_fields = <<>> THEN Zero
                             ELSE Frac(Found(t), Len(requested_fields)))

\* a call returned in which one technique raised and a later one found a value
C3_Witness ==
    /\ pc = "done"
    /\ \E i, j \in DOMAIN technique_results.keys :
          /\ i < j
          /\ technique_results.keys[i] \in Range(error_log)
          /\ technique_results.keys[j] \notin Range(error_log)
          /\ \E f \in Range(requested_fields) :
                technique_results.val[technique_results.keys[j]][f] # ""

\* C4: an error of a technique at one requested field leaves the other requested
\* fields in the technique's result, with the values it finds for them, and they
\* count in its confidence score.
C4_ErrorCostsOneField ==
    pc = "done" =>
        \A t \in ran :
            /\ \A f \in Range(requested_fields) :
                  ExpectedFields(t)[f] # ERR =>
                      /\ f \in DOMAIN technique_results.val[t]
                      /\ technique_results.val[t][f] = ExpectedFields(t)[f]
            /\ requested_fields # <<>> =>
                  FracEQ(technique_confidence_scores.val[t],
                         Frac(Found(t), Len(requested_fields)))

\* C9 as claimed: majority vote over the non-empty values, and an empty
\* consolidated value exactly when every technique returned "" or nothing.
C9_MajorityOfNonEmpty ==
    pc = "done" =>
        \A f \in Range(requested_fields) :
            LET v == consolidated_results[f]
            IN  /\ v = "" <=> ReturnedValues(f) \subseteq {""}
                /\ v # "" =>
                      /\ Returned(f, v) # {}
                      /\ \A w \in ReturnedValues(f) \ {""} :
                            Cardinality(Returned(f, w)) <= Cardinality(Returned(f, v))

\* C9 as amended: majority vote over the values that are non-empty after strip(),
\* and an empty consolidated value exactly when every technique returned a
\* whitespace-only value, "" or nothing.
C9_MajorityOfNonBlank ==
    pc = "done" =>
        \A f \in Range(requested_fields) :
            LET v == consolidated_results[f]
                nonblank == {w \in ReturnedValues(f) : strip(w) # ""}
            IN  /\ v = "" <=> nonblank = {}
                /\ v # "" =>
                      /\ v \in nonblank
                      /\ \A w \in nonblank :
                            Cardinality(Returned(f, w)) <= Cardinality(Returned(f, v))

\* a call returned in which two techniques agree on a name, a third one returned
\* another name, and the consolidated value is the one of the two
C9_Witness ==
    /\ pc = "done"
    /\ \E f \in Range(requested_fields) :
          \E w \in ReturnedValues(f) :
              /\ strip(w) # ""
              /\ w # consolidated_results[f]
              /\ Cardinality(Returned(f, w)) = 1
              /\ Cardinality(Returned(f, consolidated_results[f])) = 2

\* the consolidated value of f is a most frequent non-blank value, and among the
\* most frequent ones the one returned by the technique that was executed first
TieBreak(f) ==
    LET v == consolidated_results[f]
        nonblank == {w \in ReturnedValues(f) : strip(w) # ""}
    IN  IF nonblank = {} THEN v = ""
        ELSE /\ v \in nonblank
             /\ \A w \in nonblank \ {v} :
                   \/ Cardinality(Returned(f, w)) < Cardinality(Returned(f, v))
                   \/ /\ Cardinality(Returned(f, w)) = Cardinality(Returned(f, v))
                      /\ FirstRun(f, v) < FirstRun(f, w)

Consolidated == \A f \in Range(requested_fields) : TieBreak(f)

\* C10: consolidation leaves technique_results as it is, gives the same result when
\* it is done again, and on a tie for the highest count takes the tied value of the
\* technique that was executed first.
C10_DeterministicTieBreak ==
    [][(pc = "loop" /\ pc' = "best") =>
          /\ technique_results' = technique_results
          /\ _consolidate_results(technique_results', requested_fields')
                = consolidated_results'
          /\ Consolidated']_vars

\* a call returned in which two names tie and the later technique's name lost
C10_Witness ==
    /\ pc = "done"
    /\ \E f \in Range(requested_fields) :
          \E w \in ReturnedValues(f) :
              /\ strip(w) # ""
              /\ w # consolidated_results[f]
              /\ Cardinality(Returned(f, w)) = Cardinality(Returned(f, consolidated_results[f]))

\* position of technique t in the order of first execution
RunOrder(t) == CHOOSE i \in DOMAIN technique_results.keys : technique_results.keys[i] = t

\* t is the best of the candidates: it is one of them, and every other candidate
\* has a lower score, or the same score and a later first execution
BestAmong(t, candidates) ==
    /\ t \in candidates
    /\ \A u \in candidates \ {t} :
          \/ FracGT(technique_confidence_scores.val[t], technique_confidence_scores.val[u])
          \/ /\ FracEQ(technique_confidence_scores.val[t], technique_confidence_scores.val[u])
             /\ RunOrder(t) < RunOrder(u)

\* C11 as claimed: the best technique of a field is, among the techniques whose
\* value for it is non-empty, one of maximal confidence (the earliest executed
\* among equals), and it is "none" exactly when no technique has a non-empty value.
C11_BestOfNonEmpty ==
    pc = "done" =>
        \A f \in Range(requested_fields) :
            LET best == best_technique_per_field[f]
                candidates == {t \in Range(technique_results.keys) :
                                  \E x \in ReturnedValues(f) \ {""} : t \in Returned(f, x)}
            IN  /\ best = "none" <=> candidates = {}
                /\ best # "none" => BestAmong(best, candidates)

\* C11 as amended: the same with the techniques whose value for the field is
\* non-empty after strip(); a whitespace-only value does not make a candidate.
C11_BestOfNonBlank ==
    pc = "done" =>
        \A f \in Range(requested_fields) :
            LET best == best_technique_per_field[f]
                candidates == {t \in Range(technique_results.keys) :
                                  \E x \in ReturnedValues(f) :
                                      strip(x) # "" /\ t \in Returned(f, x)}
            IN  /\ best = "none" <=> candidates = {}
                /\ best # "none" => BestAmong(best, candidates)

\* a call returned in which the best technique of a field ran after another
\* technique that found a value for the field with a lower confidence
C11_Witness ==
    /\ pc = "done"
    /\ \E f \in Range(requested_fields) :
          LET best == best_technique_per_field[f]
          IN  /\ best # "none"
              /\ \E u \in Range(technique_results.keys) :
                    /\ f \in DOMAIN technique_results.val[u]
                    /\ strip(technique_results.val[u][f]) # ""
                    /\ RunOrder(u) < RunOrder(best)
                    /\ FracGT(technique_confidence_scores.val[best],
                              technique_confidence_scores.val[u])

\* position of technique t in self.techniques
Registered(t) == CHOOSE i \in DOMAIN techniques : techniques[i] = t

\* the ranking is a bijection from the executed techniques onto 1..N that puts a
\* higher confidence first
RanksByConfidence ==
    LET executed == Range(technique_confidence_scores.keys)
        rank == overall_technique_ranking
    IN  /\ DOMAIN rank = executed
        /\ {rank[t] : t \in executed} = 1..Cardinality(executed)
        /\ \A t, u \in executed : t # u => rank[t] # rank[u]
        /\ \A t, u \in executed :
              FracGT(technique_confidence_scores.val[t], technique_confidence_scores.val[u])
                  => rank[t] < rank[u]

\* C12 as claimed: the ranking is a bijection onto 1..N by descending confidence,
\* and of two techniques of equal confidence the one executed earlier, which is
\* also the one registered earlier, has the smaller rank.
C12_TiesByRegistration ==
    pc = "done" =>
        /\ RanksByConfidence
        /\ \A t, u \in Range(technique_confidence_scores.keys) :
              /\ FracEQ(technique_confidence_scores.val[t], technique_confidence_scores.val[u])
              /\ (RunOrder(t) < RunOrder(u) \/ Registered(t) < Registered(u))
              => overall_technique_ranking[t] < overall_technique_ranking[u]

\* C12 as amended: of two techniques of equal confidence the one executed earlier
\* has the smaller rank, whatever their order of registration.
C12_TiesByExecution ==
    pc = "done" =>
        /\ RanksByConfidence
        /\ \A t, u \in Range(technique_confidence_scores.keys) :
              /\ FracEQ(technique_confidence_scores.val[t], technique_confidence_scores.val[u])
              /\ RunOrder(t) < RunOrder(u)
              => overall_technique_ranking[t] < overall_technique_ranking[u]

\* a call returned in which three techniques were ranked: two of equal confidence
\* executed against their order of registration, and a better one executed last
C12_Witness ==
    /\ pc = "done"
    /\ \E t, u, w \in Range(technique_confidence_scores.keys) :
          /\ FracEQ(technique_confidence_scores.val[t], technique_confidence_scores.val[u])
          /\ RunOrder(t) < RunOrder(u) /\ Registered(u) < Registered(t)
          /\ FracGT(technique_confidence_scores.val[w], technique_confidence_scores.val[t])
          /\ RunOrder(u) < RunOrder(w)
          /\ overall_technique_ranking[w] = 1
          /\ overall_technique_ranking[t] = 2
          /\ overall_technique_ranking[u] = 3

\* the techniques that were executed and returned normally
ReturnedNormally == Range(technique_results.keys) \ Range(error_log)

\* with an empty request every technique reports 0.0 and nothing is consolidated
EmptyRequest ==
    requested_fields = <<>> =>
        /\ \A t \in Range(technique_confidence_scores.keys) :
              FracEQ(technique_confidence_scores.val[t], Zero)
        /\ consolidated_results = EmptyDict

\* C13 as claimed: the confidence of a technique that returned normally is the
\* number of fields of its extracted_fields with a non-empty value divided by the
\* number of requested fields, also when the list repeats a name; 0.0 and an
\* empty consolidated map for an empty list.
C13_FoundKeysOverRequested ==
    pc = "done" =>
        /\ \A t \in ReturnedNormally :
              LET extracted == technique_results.val[t]
                  found == {f \in DOMAIN extracted : extracted[f] # ""}
              IN  requested_fields # <<>> =>
                      FracEQ(technique_confidence_scores.val[t],
                             Frac(Cardinality(found), Len(requested_fields)))
        /\ EmptyRequest

\* C13 as amended: the numerator counts the positions of the requested list whose
\* field has a non-empty value, so a repeated name is counted each time.
C13_FoundPositionsOverRequested ==
    pc = "done" =>
        /\ \A t \in ReturnedNormally :
              LET extracted == technique_results.val[t]
                  found == {i \in DOMAIN requested_fields :
                               extracted[requested_fields[i]] # ""}
              IN  requested_fields # <<>> =>
                      FracEQ(technique_confidence_scores.val[t],
                             Frac(Cardinality(found), Len(requested_fields)))
        /\ EmptyRequest

\* a call returned in which a name was requested twice and a technique found it
C13_Witness ==
    /\ pc = "done"
    /\ Len(requested_fields) = 2
    /\ requested_fields[1] = requested_fields[2]
    /\ \E t \in ReturnedNormally :
          /\ technique_results.val[t][requested_fields[1]] # ""
          /\ FracEQ(technique_confidence_scores.val[t], Frac(1, 1))

\* selected_techniques without the names that are not registered
RegisteredSelection == SelectSeq(selected_techniques, LAMBDA t : t \in Range(techniques))

\* technique_results of a call for the given fields that runs the first i names
\* of a selection of registered techniques
RECURSIVE ResultsOf(_, _, _)
ResultsOf(selected, fields, i) ==
    IF i = 0 THEN OD_Empty
    ELSE LET r == technique_func(selected[i], fields)
         IN  OD_Set(ResultsOf(selected, fields, i - 1), selected[i],
                    IF r.raised THEN EmptyDict ELSE r.extracted_fields)

\* C14: the techniques with an entry in technique_results,
\* technique_confidence_scores and overall_technique_ranking are the selected names
\* that are registered; without a selection they are all registered techniques,
\* run once each in registration order; a name that is not registered is skipped
\* without an entry or an error, and the results and consolidated values are
\* those of the selection without it.
C14_RegisteredSelectionRuns ==
    pc = "done" =>
        /\ Range(technique_results.keys) = ran
        /\ Range(technique_confidence_scores.keys) = ran
        /\ DOMAIN overall_technique_ranking = ran
        /\ was_default =>
              /\ selected_techniques = techniques
              /\ technique_results.keys = techniques
              /\ technique_confidence_scores.keys = techniques
        /\ Range(error_log) \subseteq Range(techniques)
        /\ technique_results =
              ResultsOf(RegisteredSelection, requested_fields, Len(RegisteredSelection))
        /\ consolidated_results =
              _consolidate_results(
                  ResultsOf(RegisteredSelection, requested_fields, Len(RegisteredSelection)),
                  requested_fields)

\* a call returned whose selection has a name that is not registered between two
\* techniques that found a value
C14_Witness ==
    /\ pc = "done"
    /\ Len(selected_techniques) = 3
    /\ selected_techniques[2] \notin Range(techniques)
    /\ Len(technique_results.keys) = 2
    /\ \E f \in Range(requested_fields) :
          /\ \E x \in ReturnedValues(f) \ {""} : selected_techniques[1] \in Returned(f, x)
          /\ \E x \in ReturnedValues(f) \ {""} : selected_techniques[3] \in Returned(f, x)
          /\ consolidated_results[f] # ""

\* the requested fields without the name f
Without(f) == SelectSeq(requested_fields, LAMBDA g : g # f)

\* C15: a requested name that is in no table of the pattern library makes no
\* technique raise and gets "" from every technique that returns, "" as
\* consolidated value and "none" as best technique; the techniques that raise, the
\* values of the other fields and their consolidated values are those of the same
\* call without the unknown name.
C15_UnknownFieldIsEmpty ==
    pc = "done" =>
        \A f \in Range(requested_fields) \ LibraryFields :
            LET others == ResultsOf(RegisteredSelection, Without(f), Len(RegisteredSelection))
            IN  /\ \A t \in Range(technique_results.keys) :
                      /\ t \in Range(error_log) <=> technique_func(t, Without(f)).raised
                      /\ t \notin Range(error_log) =>
                            /\ technique_results.val[t][f] = ""
                            /\ \A g \in Range(Without(f)) :
                                  technique_results.val[t][g] = others.val[t][g]
                /\ consolidated_results[f] = ""
                /\ best_technique_per_field[f] = "none"
                /\ \A g \in Range(Without(f)) :
                      consolidated_results[g] =
                          _consolidate_results(others, Without(f))[g]

\* a call returned for an unknown name and a library name, in which a technique
\* found the library field
C15_Witness ==
    /\ pc = "done"
    /\ \E f \in Range(requested_fields) \ LibraryFields :
          \E g \in Range(requested_fields) \cap LibraryFields :
              \E t \in ReturnedNormally :
                  /\ technique_results.val[t][f] = ""
                  /\ technique_results.val[t][g] # ""
                  /\ consolidated_results[g] = technique_results.val[t][g]

\* C16: a requested name is looked up after lower-casing and replacing spaces by
\* underscores: every technique that returns has, under the key as requested, the
\* value that the document yields for the normalized name.
C16_LookupIsNormalized ==
    pc = "done" =>
        \A t \in ReturnedNormally :
            \A f \in Range(requested_fields) :
                /\ f \in DOMAIN technique_results.val[t]
                /\ technique_results.val[t][f] =
                      IF normalize(f) \in LibraryFields THEN doc[t][normalize(f)] ELSE ""

-----------------------------------------------------------------------------
(* Properties of calculate_ensemble_confidence                             *)

\* the call has returned its report to the caller
score_returned == score_pc = "returned"

Half == PyFloat(1, 2)

\* the fixed values of the fallback report
IsFallback(report) ==
    /\ report.overall_confidence = Half
    /\ \A name \in DOMAIN report.algorithm_scores : report.algorithm_scores[name] = Half
    /\ DOMAIN report.algorithm_scores =
          {"completion_confidence", "validation_confidence", "template_confidence",
           "quality_confidence", "consistency_confidence"}
    /\ report.risk_assessment.high_risk
    /\ report.quality_grade = "F"
    /\ report.manual_review_required

\* the five sub-scores of a report
SubScores(report) == {report.algorithm_scores[name] : name \in DOMAIN report.algorithm_scores}

InUnitInterval(x) == FGE(x, PyFloat(0, 1)) /\ FGE(PyFloat(1, 1), x)

\* the band of the table A >= 0.9, B >= 0.8, C >= 0.7, D >= 0.6, else F
Band(x) ==
    CASE FGE(x, PyFloat(9, 10))                              -> "A"
      [] FGE(x, PyFloat(8, 10)) /\ FLT(x, PyFloat(9, 10))    -> "B"
      [] FGE(x, PyFloat(7, 10)) /\ FLT(x, PyFloat(8, 10))    -> "C"
      [] FGE(x, PyFloat(6, 10)) /\ FLT(x, PyFloat(7, 10))    -> "D"
      [] FLT(x, PyFloat(6, 10))                              -> "F"

\* C5: calculate_ensemble_confidence never propagates an exception: whenever the
\* step the call is at (one of the five sub-algorithms, the weighted sum, or the
\* risk assessment, grading and recommendations of the result) raises, the call
\* returns, and the report it returns has the fixed fallback values: overall
\* confidence 0.5, the five scores 0.5, high_risk true, grade F, manual review
\* required.  This holds for every shape of extracted_data, None and maps whose
\* values are not maps included.
C5_FallbackOnAnyException ==
    [][(score_pc \in Range(TrySteps) /\ step_outcome.raised)
          => (score_pc' = "returned" /\ IsFallback(result'))]_vars

\* a call with {"extracted_fields": <not a map>} has raised and returned the fallback
C5_Witness ==
    /\ score_returned
    /\ raised_at # <<>>
    /\ extracted_data.type = "dict"
    /\ "extracted_fields" \in Range(extracted_data.keys)
    /\ extracted_data.val["extracted_fields"].type # "dict"
    /\ IsFallback(result)

\* C6: in every returned report the overall confidence and each of the five
\* algorithm scores is in [0, 1], whatever template_match_score and
\* classification_confidence the caller supplied.
C6_ScoresInUnitInterval ==
    score_returned =>
        /\ InUnitInterval(result.overall_confidence)
        /\ \A x \in SubScores(result) : InUnitInterval(x)

\* C7: in every returned report, normal or fallback, quality_grade is the band of
\* the overall_confidence the same report contains.
C7_GradeIsBandOfReportedConfidence ==
    score_returned => result.quality_grade = Band(result.overall_confidence)

\* C8: in every returned report, normal or fallback, manual_review_required is true
\* if and only if the overall_confidence of the report is below 0.75 or its
\* high_risk is true.
C8_ManualReviewIffLowOrHighRisk ==
    score_returned =>
        (result.manual_review_required
            <=> (\/ FLT(result.overall_confidence, PyFloat(75, 100))
                 \/ result.risk_assessment.high_risk))

\* the template classification is None or a dict whose scores are floats in [0, 1]
TemplateInRange ==
    /\ template_classification.type \in {"NoneType", "dict"}
    /\ \A k \in Range(template_classification.keys)
                \cap {"template_match_score", "classification_confidence"} :
          /\ template_classification.val[k].type = "float"
          /\ InUnitInterval(template_classification.val[k])

\* extracted_data is a non-empty flat field map whose values are all empty
AllEmptyMap ==
    /\ extracted_data.type = "dict"
    /\ extracted_data.keys # <<>>
    /\ \A k \in Range(extracted_data.keys) : extracted_data.val[k] = ""

\* C18: when no technique finds a value for any requested field, every technique's
\* confidence is 0.0 and every consolidated value is ""; the report of
\* calculate_ensemble_confidence for a non-empty field map whose values are all
\* empty, with a template classification whose scores are in [0, 1], requires
\* manual review.
C18_NothingFoundNeedsReview ==
    /\ (pc = "done" /\ NothingFound) =>
          /\ \A t \in Range(technique_confidence_scores.keys) :
                FracEQ(technique_confidence_scores.val[t], Zero)
          /\ \A f \in Range(requested_fields) : consolidated_results[f] = ""
    /\ (score_returned /\ AllEmptyMap /\ TemplateInRange) =>
          result.manual_review_required

\* the consolidated map of a call for a library name and an unknown name that
\* found nothing was scored with a template score in range, without an exception
C18_Witness ==
    /\ score_returned
    /\ Range(extracted_data.keys) = {"name", "title"}
    /\ raised_at = <<>>
    /\ AllEmptyMap
    /\ TemplateInRange
    /\ "template_match_score" \in Range(template_classification.keys)
    /\ result.manual_review_required

\* the critical fields that are keys of the field map with an empty value
EmptyCritical ==
    LET fields == fields_of(extracted_data).value
    IN  {f \in Range(critical_fields) \cap Range(fields.keys) : fields.val[f] = ""}

\* C20: in every report that is not the fallback report, high_risk is true if and
\* only if more than one critical field is a key of the data with an empty value,
\* or the report's overall_confidence is below 0.6; a warning sign alone does not
\* set it, and a critical field that is not a key does not count.
C20_HighRiskIffMissingOrReportedLow ==
    (score_returned /\ raised_at = <<>>) =>
        (result.risk_assessment.high_risk
            <=> (\/ Cardinality(EmptyCritical) > 1
                 \/ FLT(result.overall_confidence, PyFloat(6, 10))))

\* what _assess_risk_factors computes: the same equivalence on the unrounded
\* overall confidence it is called with
HighRiskIffMissingOrLow ==
    (score_returned /\ raised_at = <<>>) =>
        (result.risk_assessment.high_risk
            <=> (\/ Cardinality(EmptyCritical) > 1
                 \/ FLT(overall_confidence, PyFloat(6, 10))))

\* a report with a format warning and one critical field empty, confidence at
\* least 0.6, and high_risk false
WarningAloneIsNotHighRisk ==
    /\ score_returned
    /\ raised_at = <<>>
    /\ Cardinality(EmptyCritical) = 1
    /\ result.risk_assessment.warning_signs # <<>>
    /\ FGE(overall_confidence, PyFloat(6, 10))
    /\ ~result.risk_assessment.high_risk

StandardProcessing == "Standard processing acceptable"

\* the confidence lies in [0.75, 0.8], the report is not high risk and has no
\* warning signs
NothingTriggered ==
    /\ raised_at = <<>>
    /\ FGE(overall_confidence, PyFloat(75, 100))
    /\ ~FGT(overall_confidence, PyFloat(8, 10))
    /\ ~result.risk_assessment.high_risk
    /\ result.risk_assessment.warning_signs = <<>>

\* C21: every returned report holds at least one recommendation, whatever the
\* confidence, the high_risk flag and the warning signs are; "Standard processing
\* acceptable" is among them if and only if nothing else was triggered
\* (confidence in [0.75, 0.8], not high risk, no warning signs), and then it is
\* the only one.
C21_AlwaysARecommendation ==
    score_returned =>
        /\ Len(result.recommendations) >= 1
        /\ (StandardProcessing \in Range(result.recommendations)) <=> NothingTriggered
        /\ (StandardProcessing \in Range(result.recommendations))
              => result.recommendations = <<StandardProcessing>>

\* a returned report whose only recommendation is the default
C21_Witness ==
    /\ score_returned
    /\ NothingTriggered
    /\ result.recommendations = <<StandardProcessing>>

\* the 4-digit years that a date value contains
four_digit_years(date_value) == IF date_value = "01/15/1990" THEN {1990} ELSE {}

\* the date-like fields whose value contains a 4-digit year
DatedFields ==
    LET fields == fields_of(extracted_data).value
    IN  {k \in Range(keys_with(fields, {"date"}, 1)) : four_digit_years(fields.val[k]) # {}}

\* the call was given a field map and a template classification it can score
Scorable ==
    /\ score_returned
    /\ TemplateInRange
    /\ ~_calculate_template_confidence(template_classification).raised
    /\ ~fields_of(extracted_data).raised

\* C25: for data with a checkable group the scorer returns a normal report whose
\* consistency_confidence is the mean of the per-check scores, 1.0 for a date
\* field whose 4-digit year is within [1900, current_year] and 0.0 for one
\* outside (the maps here have one name field and no amount field, so the dated
\* fields are the only checks); with no checkable group the score is 0.8.
C25_ConsistencyIsMeanOfChecks ==
    Scorable =>
        LET fields == fields_of(extracted_data).value
            in_range == {k \in DatedFields :
                            \E y \in four_digit_years(fields.val[k]) :
                                1900 <= y /\ y <= current_year}
        IN  IF DatedFields # {}
            THEN /\ raised_at = <<>>
                 /\ FracEQ(result.algorithm_scores.consistency_confidence,
                           Frac(Cardinality(in_range), Cardinality(DatedFields)))
            ELSE /\ raised_at = <<>>
                 /\ FracEQ(result.algorithm_scores.consistency_confidence, Frac(8, 10))

\* what the code does: with a dated field the call ends in the fallback report,
\* raised inside _calculate_consistency_confidence; without one it returns a
\* normal report with consistency 0.8
DatedFieldEndsInFallback ==
    Scorable =>
        IF DatedFields # {}
        THEN raised_at = <<"consistency">> /\ result = _get_fallback_confidence
        ELSE /\ raised_at = <<>>
             /\ FracEQ(result.algorithm_scores.consistency_confidence, Frac(8, 10))

\* a normal report was returned for a map of formatted fields
FormattedReturned ==
    score_returned /\ raised_at = <<>> /\ extracted_data \in FormattedMaps

\* the fields whose value is not the empty string
NonEmptyFields == {k \in Range(extracted_data.keys) : extracted_data.val[k] # ""}

\* the fields whose value has something left after strip()
NonBlankFields == {k \in Range(extracted_data.keys) : strip(extracted_data.val[k]) # ""}

\* the fields of the set that score 1.0: their value matches the strict pattern of
\* the field; "name" has no pattern and its value here is a plain name
Valid(fields) ==
    {k \in fields :
        \/ k = "name"
        \/ matches_validation_pattern(k, strip(extracted_data.val[k]))}

\* the validation sub-score is the share of valid fields among the given ones
ValidationIsShareOf(fields) ==
    IF fields = {} THEN FracEQ(validation_confidence, Frac(1, 2))
    ELSE FracEQ(validation_confidence, Frac(Cardinality(Valid(fields)), Cardinality(fields)))

\* warning_signs has a format issue for f exactly when the value of f is not the
\* empty string and fails the pattern of f
FormatIssuesOfNonEmpty ==
    \A f \in {"ssn", "phone", "email"} :
        (<<"Format issue in", f>> \in Range(result.risk_assessment.warning_signs))
            <=> (f \in NonEmptyFields /\ f \notin Valid({f}))

\* C26: a field with a strict pattern and a non-empty value that does not match
\* contributes 0.0 to the validation sub-score, which is the average over the
\* fields that have a non-empty value (0.5 when none has); and warning_signs has
\* a format issue for ssn, phone or email exactly when its non-empty value fails
\* the same pattern.
C26_NonEmptyMismatchScoresZeroAndWarns ==
    FormattedReturned => (ValidationIsShareOf(NonEmptyFields) /\ FormatIssuesOfNonEmpty)

\* C26 as the code has it: the validation average is over the fields whose value
\* is not blank after strip(), a mismatch among them counting 0.0, while the
\* format issue is reported for every value that is not the empty string, a
\* whitespace-only one included.
C26_NonBlankScoredNonEmptyWarned ==
    FormattedReturned => (ValidationIsShareOf(NonBlankFields) /\ FormatIssuesOfNonEmpty)

\* a normal report for a whitespace-only ssn next to a malformed phone: the ssn
\* has a format issue and no part in the validation score, the phone scores 0.0
C26_Witness ==
    /\ FormattedReturned
    /\ "ssn" \in Range(extracted_data.keys)
    /\ extracted_data.val["ssn"] = WhitespaceOnly
    /\ "phone" \in NonBlankFields
    /\ "phone" \notin Valid({"phone"})
    /\ "name" \in NonBlankFields
    /\ FracEQ(validation_confidence, Frac(1, 2))
    /\ <<"Format issue in", "ssn">> \in Range(result.risk_assessment.warning_signs)
    /\ <<"Format issue in", "phone">> \in Range(result.risk_assessment.warning_signs)

-----------------------------------------------------------------------------
(* Properties of the shape normalization                                   *)

\* the call has returned for a flat field map with no recognized key
FlatReturned == score_returned /\ extracted_data \in ShapeMaps

\* the roundings under which the flat map gives the report that was returned
RoundingsOfResult ==
    {up \in Roundings : ensemble_report(extracted_data, template_classification, up) = result}

\* two reports that differ at most in the order of their warning signs
same_but_warning_order(r1, r2) ==
    /\ [r1 EXCEPT !.risk_assessment.warning_signs = <<>>]
         = [r2 EXCEPT !.risk_assessment.warning_signs = <<>>]
    /\ Len(r1.risk_assessment.warning_signs) = Len(r2.risk_assessment.warning_signs)
    /\ Range(r1.risk_assessment.warning_signs) = Range(r2.risk_assessment.warning_signs)

-----------------------------------------------------------------------------
(* Properties of concurrent calls                                          *)

\* the frame in which the call of frame f started
entry_frame(f) ==
    [IdleFrame EXCEPT !.method = f.method,
                      !.pos = IF f.method = "extract" THEN "loop" ELSE "completion",
                      !.text = f.text, !.fields = f.fields, !.selected = f.selected,
                      !.data = f.data, !.classification = f.classification]

\* what extract_with_multiple_techniques returns when nothing else runs
RECURSIVE extract_alone(_, _)
extract_alone(registered, f) ==
    IF f.pos = "returned" THEN f.returned
    ELSE extract_alone(registered, extract_step(registered, f))

\* C23: calls of extract_with_multiple_techniques and calculate_ensemble_confidence
\* that run concurrently on the shared instances do not interfere: under every
\* interleaving each call returns what it returns when run alone, and the
\* instance state (techniques, regex_patterns, fuzzy_keywords, field_weights,
\* validation_patterns) stays as __init__ left it.
C23_ConcurrentCallsIndependent ==
    /\ instance = InstanceInit
    /\ techniques = techniques_simple
    /\ \A t \in Threads :
          invocation[t].pos = "returned" =>
              IF invocation[t].method = "extract"
              THEN invocation[t].returned
                       = extract_alone(techniques_simple, entry_frame(invocation[t]))
              ELSE \E up \in Roundings :
                      invocation[t].returned
                          = ensemble_report(invocation[t].data,
                                            invocation[t].classification, up)

\* one extraction has returned a value while an extraction of another text is
\* inside its loop with a result stored, and no thread is idle
C23_Witness ==
    \E t, u \in Threads :
        /\ t # u
        /\ invocation[t].method = "extract"
        /\ invocation[t].pos = "returned"
        /\ invocation[t].returned.consolidated_results["name"] # ""
        /\ invocation[u].method = "extract"
        /\ invocation[u].pos = "loop"
        /\ invocation[u].results.keys # <<>>
        /\ invocation[u].text # invocation[t].text

-----------------------------------------------------------------------------
(* Properties of _vote_on_candidates                                       *)

VoteReturned == helper_pc = "returned" /\ helper_args.helper = "_vote_on_candidates"

\* occurrences of the candidate in the pool, plus 5 if it has the strict format
vote_score(candidate) ==
    Count(candidate, helper_args.candidates)
    + (IF _validate_field_format(candidate, helper_args.field_type) THEN 5 ELSE 0)

\* C24: for every pool of candidates the vote returns a candidate whose score,
\* occurrences in the pool plus 5 if it passes the strict format of the field, is
\* the largest of the pool; a valid candidate that occurs once (6) beats an
\* invalid one that occurs three times (3).
C24_VoteMaximizesCountPlusBonus ==
    (VoteReturned /\ helper_args.candidates # <<>>) =>
        /\ helper_result \in Range(helper_args.candidates)
        /\ \A c \in Range(helper_args.candidates) : vote_score(helper_result) >= vote_score(c)

\* what the loop accumulates: a candidate that occurs n times is scored n times,
\* n * n for its occurrences and 5 * n for its format
accumulated_score(candidate) ==
    LET n == Count(candidate, helper_args.candidates)
    IN  n * n + (IF _validate_field_format(candidate, helper_args.field_type)
                 THEN 5 * n ELSE 0)

VoteMaximizesAccumulatedScore ==
    (VoteReturned /\ helper_args.candidates # <<>>) =>
        /\ helper_result \in Range(helper_args.candidates)
        /\ \A c \in Range(helper_args.candidates) :
              accumulated_score(helper_result) >= accumulated_score(c)

-----------------------------------------------------------------------------
(* Recommendations against the flags of the report                         *)

SafeForAutomation == "High confidence extraction - safe for automated processing"

\* C30: no returned report is self-contradictory: the recommendation "High
\* confidence extraction - safe for automated processing" never appears in a
\* report whose manual_review_required is true or whose
\* risk_assessment.high_risk is true.
C30_SafeOnlyWithoutReview ==
    (score_returned /\ SafeForAutomation \in Range(result.recommendations)) =>
        /\ ~result.manual_review_required
        /\ ~result.risk_assessment.high_risk

\* the recommendation never appears in a report of a confidence below 0.75
SafeNeverWithLowConfidence ==
    (score_returned /\ SafeForAutomation \in Range(result.recommendations)) =>
        ~FLT(overall_confidence, PyFloat(75, 100))

\* two critical fields are present but empty, the confidence exceeds 0.9, and
\* the report is high risk, needs manual review and is called safe
SafeAndHighRisk ==
    /\ score_returned
    /\ raised_at = <<>>
    /\ Cardinality(EmptyCritical) >= 2
    /\ FGT(overall_confidence, PyFloat(9, 10))
    /\ result.risk_assessment.high_risk
    /\ result.manual_review_required
    /\ SafeForAutomation \in Range(result.recommendations)

-----------------------------------------------------------------------------
(* Attribution against the merged answer                                   *)

\* C29: in every result of extract_with_multiple_techniques, for every field
\* whose consolidated value is non-empty, best_technique_per_field names a
\* technique whose own value for the field equals the consolidated value; and
\* best_technique_per_field is "none" exactly for the fields whose consolidated
\* value is the empty string.
C29_AttributionMatchesMerged ==
    pc = "done" =>
        \A f \in Range(requested_fields) :
            /\ consolidated_results[f] # "" =>
                  best_technique_per_field[f] \in Returned(f, consolidated_results[f])
            /\ best_technique_per_field[f] = "none" <=> consolidated_results[f] = ""

\* "none" is recorded exactly for the fields whose consolidated value is empty
NoneExactlyForEmpty ==
    pc = "done" =>
        \A f \in Range(requested_fields) :
            best_technique_per_field[f] = "none" <=> consolidated_results[f] = ""

-----------------------------------------------------------------------------
(* Properties of _position_based_extraction                                *)

PositionReturned ==
    helper_pc = "returned" /\ helper_args.helper = "_position_based_extraction"

\* the 0-based indexes of the lines of the field's window in a document of n lines
WindowIndexes(field, n) ==
    {i \in 0..(n - 1) :
        IF field \in {"name", "employee_id"} THEN i < 5
        ELSE IF field \in {"ssn", "date"} THEN n \div 4 <= i /\ i < (3 * n) \div 4
        ELSE IF field \in {"amount", "salary"} THEN i >= n - 10
        ELSE TRUE}

\* the indexes of the window lines that hold a value
ValuedInWindow ==
    {i \in WindowIndexes(helper_args.field, Len(helper_args.lines)) :
        helper_args.lines[i + 1] # Filler}

\* C27: position-based extraction searches only the lines of the field's window
\* (name, employee_id: index < 5; ssn, date: floor(n/4) <= index < floor(3n/4);
\* amount, salary: the last 10 lines; any other field: all lines): a value is
\* returned only from a window line, for a field of the library it is the value
\* of the first window line that has one, and an ssn or date on a line of the
\* middle half is returned.
C27_SearchesOnlyTheWindow ==
    PositionReturned =>
        /\ helper_result # "" =>
              \E i \in ValuedInWindow : helper_args.lines[i + 1] = helper_result
        /\ (helper_args.field \in LibraryFields /\ ValuedInWindow # {}) =>
              \E i \in ValuedInWindow :
                  /\ \A j \in ValuedInWindow : i <= j
                  /\ helper_result = helper_args.lines[i + 1]
        /\ (helper_args.field \in {"ssn", "date"} /\ ValuedInWindow # {}) =>
              helper_result # ""

\* an ssn search in a 12-line document with one value before the middle half
\* and another inside it: the one inside is returned
C27_Witness ==
    /\ PositionReturned
    /\ helper_args.field = "ssn"
    /\ Len(helper_args.lines) = 12
    /\ helper_args.lines[2] = "v1"
    /\ helper_args.lines[6] = "v2"
    /\ helper_result = "v2"

-----------------------------------------------------------------------------
(* Properties of _confidence_weighted_extraction                           *)

WeightedReturned ==
    helper_pc = "returned" /\ helper_args.helper = "_confidence_weighted_extraction"

\* the pairs collected for the field: per pattern, in pattern order, every
\* match with 0.8 + 0.1 * (pattern index); then the other methods' pairs
CollectedPairs ==
    LET m == helper_args.matches
        RECURSIVE from(_)
        from(i) == IF i > Len(m) THEN <<>>
                   ELSE [k \in DOMAIN m[i] |-> Pair(m[i][k], 80 + 10 * (i - 1))]
                        \o from(i + 1)
    IN  from(1) \o helper_args.others

MaxCollected ==
    CHOOSE c \in {CollectedPairs[i].confidence : i \in DOMAIN CollectedPairs} :
        \A i \in DOMAIN CollectedPairs : CollectedPairs[i].confidence <= c

FirstOfMax ==
    CHOOSE i \in DOMAIN CollectedPairs :
        /\ CollectedPairs[i].confidence = MaxCollected
        /\ \A j \in DOMAIN CollectedPairs :
              CollectedPairs[j].confidence = MaxCollected => i <= j

\* C28: confidence-weighted extraction selects the candidate of the first
\* collected pair whose confidence is the maximum; the field is left empty
\* exactly when no candidate exists or that maximum is <= 0.5; with regex
\* candidates at 0.8 + 0.1 * (pattern index) and keyword candidates at 0.7, a
\* field with at least one candidate is never left empty.
C28_FirstOfMaximumSelected ==
    WeightedReturned =>
        /\ helper_result = "" <=> (CollectedPairs = <<>> \/ MaxCollected <= 50)
        /\ helper_result # "" => helper_result = CollectedPairs[FirstOfMax].value
        /\ (helper_args.class = "simple" /\ CollectedPairs # <<>>) => helper_result # ""

\* two matches of the same pattern with the maximum, and a keyword candidate:
\* the first match is selected
C28_Witness ==
    /\ WeightedReturned
    /\ helper_args.class = "simple"
    /\ helper_args.field = "ssn"
    /\ helper_args.matches = <<(<<"v2">>), (<<"v1", "v2">>)>>
    /\ helper_args.others = <<Pair("v2", 70)>>
    /\ helper_result = "v1"

\* in the full class a field whose only candidate has confidence <= 0.5 is left empty
WeightedRejectsLowMaximum ==
    /\ WeightedReturned
    /\ helper_args.class = "full"
    /\ CollectedPairs # <<>>
    /\ MaxCollected = 50
    /\ helper_result = ""

-----------------------------------------------------------------------------
(* Properties of extract_custom_fields                                     *)

\* C17: extract_custom_fields returns for every text and field list, and the key
\* set of the map it returns is the set of the requested names after strip(),
\* with None for a field for which nothing was found.
C17_ReturnsExactlyRequested ==
    /\ custom_pc # "raised"
    /\ custom_pc = "returned" =>
          /\ DOMAIN custom_results = {strip(f) : f \in Range(field_list)}
          /\ \A f \in Range(field_list) :
                strategy_value(custom_text, f) = None => custom_results[strip(f)] = None

-----------------------------------------------------------------------------
(* Properties of _regex_pattern_matching on "Label: value" lines           *)

\* the value on the first line of the text that has the label of the field
RECURSIVE value_on_line(_, _, _)
value_on_line(lines, field, i) ==
    IF i > Len(lines) THEN <<>>
    ELSE IF lower(lines[i].label) = field THEN lines[i].value
    ELSE value_on_line(lines, field, i + 1)

\* C19: on a text of "Label: value" lines the regex technique returns for each
\* field the value that follows the label on the label's own line and nothing of
\* the next lines; for "Name: John Smith\nSSN: 123-45-6789\nEmail:
\* john@example.com" and [name, ssn, email] these are the three values, with
\* confidence 1.0.
C19_ValueOfLabelLine ==
    form_pc = "returned" =>
        /\ \A f \in Range(form_fields) :
              form_result.extracted_fields[f] = value_on_line(form_lines, f, 1)
        /\ (/\ form_fields = <<"name", "ssn", "email">>
            /\ \A f \in FormFields :
                  \E i \in DOMAIN form_lines : lower(form_lines[i].label) = f)
           => FracEQ(form_result.confidence_score, Frac(1, 1))

====
